---- MODULE Spec2Model ----
(***************************************************************************)
(* Verification model of the puzzle solvers of advent-of-code-2022.        *)
(*                                                                         *)
(* Day 16 (src/src/day_16.py): the script parses a valve graph, computes   *)
(* the all-pairs distance table (_get_distances_table), then runs the      *)
(* single-actor search (_get_max_pressure) and the two-actor search        *)
(* (_get_max_pressure_part2) and prints one answer per search.  The two    *)
(* searches are recursive; they are modelled with an explicit call stack,  *)
(* one frame per active call, and the iteration order of the set           *)
(* valves_to_consider is a nondeterministic choice.  The time budgets      *)
(* (30 and 26 in the source) are the parameter time_budget.                *)
(*                                                                         *)
(* Day 19 (src/src/day_19.py): for each blueprint the script runs the      *)
(* depth-first search _get_max_geodes once per first target robot, first   *)
(* with the part-1 time budget and then with the part-2 budget, pruning    *)
(* with the module global BEST_SO_FAR.  The recursion uses the same        *)
(* explicit call stack.  The budgets (24 and 32 in the source) are the     *)
(* definitions Part1Minutes and Part2Minutes.                              *)
(*                                                                         *)
(* Days 5, 6, 9, 11, 14, 17, 20 and 23: each script is modelled with one   *)
(* action per call of its simulation function (one crate operation, one    *)
(* step of the rope's head, one round of the monkeys, one step of a sand   *)
(* particle, one rock, one update of the circular list, one step of the    *)
(* elves) and one action per print; the sections of these days are at the  *)
(* end of the module.                                                      *)
(*                                                                         *)
(* The scripts are separate programs: Spec runs day 16, Spec19 day 19,     *)
(* and Spec5, Spec6, Spec9, Spec11, Spec14, Spec17, Spec20 and Spec23 the  *)
(* script of their day; each leaves the variables of the others alone.     *)
(***************************************************************************)
EXTENDS Integers, Sequences, FiniteSets

VARIABLES
    flow_rates,        \* day 16: valve name -> flow rate (parser output)
    adj_dict,          \* day 16: valve name -> set of neighbouring valves
    time_budget,       \* day 16: the time budget handed to the root call
    distances_dict,    \* day 16: the table returned by _get_distances_table
    all_valves,        \* day 16: valves_of_interest of the running search
    blueprints,        \* day 19: the parsed blueprints, in file order
    blueprint_index,   \* day 19: position of the script's loop over blueprints
    BEST_SO_FAR,       \* day 19: the module global used for pruning
    max_geode_nums,    \* day 19: the list built by the running top-level search
    quality_levels,    \* day 19: the list built by the part-1 loop
    geode_nums_part2,  \* day 19: the list built by the part-2 loop
    data_file_str,     \* the lines of the data file handed to _parse_data_file
    lines_parsed,      \* the lines the parser's loop has matched
    stack,             \* call stack of the running recursive search
    printed,           \* the answers printed so far, in order
    pc,                \* position of the script
    rock_region,       \* day 14: the points of the rock paths
    occupied_points,   \* day 14: rock and sand at rest
    floor,             \* day 14: the floor of part 2
    finished,          \* day 14: the flag of the script's loops
    num_sand,          \* day 14: the particles come to rest
    curr_point,        \* day 14: the particle being simulated
    directions,        \* day 17: the jet pattern, the parsed data file
    ROCK_NUM,          \* day 17: the module constant: the rocks to account for
    cache,             \* day 17: cache entry -> (rock index, height)
    dir_gen,           \* day 17: the generator's index of the next direction
    shape_gen,         \* day 17: the generator's index of the next shape
    terrain,           \* day 17: the points of the floor and of the rocks at rest
    repeat_found,      \* day 17: a cache entry was seen before
    idx,               \* day 17: the rocks simulated by the first loop
    cycle_length,      \* day 17: rocks in a cycle
    cycle_height,      \* day 17: height gained in a cycle
    num_cycles,        \* day 17: the cycles skipped
    remaining_after_cycle, \* day 17: the rocks simulated after the cycles
    simulated_after_cycle, \* day 17: the iterations of the second loop so far
    height,            \* day 17: the answer
    moves,             \* day 9: the parsed data file: (direction, number) pairs
    head_pos,          \* day 9: part 1: the head
    tail_pos,          \* day 9: part 1: the tail
    tail_positions,    \* day 9: part 1: the positions the tail visited
    knot_positions,    \* day 9: part 2: the knots, head first
    tail_positions_part2, \* day 9: part 2: the positions the last knot visited
    move_idx,          \* day 9: the moves the running loop finished
    step_idx,          \* day 9: the steps of the current move done
    monkey_matches,    \* day 11: the monkeys of the data file, by number
    monkeys_2,         \* day 11: the Monkey2 objects of part 2
    lcm,               \* day 11: the modulus of part 2
    rounds_done,       \* day 11: the rounds of part 2 simulated so far
    input_str,         \* day 6: the stripped data file, a sequence of characters
    marker,            \* day 6: the result of the last call: {} for None, {n} for n
    stacks,            \* day 5: the parsed stacks, bottom crate first
    operations,        \* day 5: the parsed operations
    stacks_copy,       \* day 5: the stacks the running part works on
    op_idx,            \* day 5: the operations the running loop finished
    top_of_stack_str,  \* day 5: the top crates of the last part
    numbers,           \* day 20: the numbers in their original order
    index_mapping,     \* day 20: original indices in the order of the circular array
    mix_i,             \* day 20: the loop variable i: the updates of the running round done
    mix_round,         \* day 20: the rounds of part 2 done
    coords,            \* day 20: the grove coordinates of the last part
    elf_file,          \* day 23: the elf locations of the data file
    elf_locations,     \* day 23: the elf locations
    start_dir,         \* day 23: the first direction the elves look at
    steps_done,        \* day 23: the steps of part 1 done
    round_count        \* day 23: the rounds of part 2

day16 == <<flow_rates, adj_dict, time_budget, distances_dict, all_valves>>

day19 == <<blueprints, blueprint_index, BEST_SO_FAR, max_geode_nums,
           quality_levels, geode_nums_part2>>

file == <<data_file_str, lines_parsed>>

day14 == <<rock_region, occupied_points, floor, finished, num_sand, curr_point>>

day17 == <<directions, ROCK_NUM, cache, dir_gen, shape_gen, terrain, repeat_found, idx, cycle_length, cycle_height, num_cycles, remaining_after_cycle, simulated_after_cycle, height>>

day9 == <<moves, head_pos, tail_pos, tail_positions, knot_positions, tail_positions_part2, move_idx, step_idx>>

day11 == <<monkey_matches, monkeys_2, lcm, rounds_done>>

day6 == <<input_str, marker>>

day5 == <<stacks, operations, stacks_copy, op_idx, top_of_stack_str>>

day20 == <<numbers, index_mapping, mix_i, mix_round, coords>>

day23 == <<elf_file, elf_locations, start_dir, steps_done, round_count>>

\* the scripts of the other days, each a program of its own
puzzles == <<day14, day17, day9, day11, day6, day5, day20, day23>>

vars == <<day16, day19, file, puzzles, stack, printed, pc>>

\* day 14 before its script has run
Day14NotStarted ==
    /\ rock_region = {}
    /\ occupied_points = {}
    /\ floor = 0
    /\ finished = FALSE
    /\ num_sand = 0
    /\ curr_point = <<>>

\* day 17 before its script has run
Day17NotStarted ==
    /\ directions = <<>>
    /\ ROCK_NUM = 0
    /\ cache = {}
    /\ dir_gen = 0
    /\ shape_gen = 0
    /\ terrain = {}
    /\ repeat_found = FALSE
    /\ idx = 0
    /\ cycle_length = 0
    /\ cycle_height = 0
    /\ num_cycles = 0
    /\ remaining_after_cycle = 0
    /\ simulated_after_cycle = 0
    /\ height = 0

\* day 9 before its script has run
Day9NotStarted ==
    /\ moves = <<>>
    /\ head_pos = [x |-> 0, y |-> 0]
    /\ tail_pos = [x |-> 0, y |-> 0]
    /\ tail_positions = {}
    /\ knot_positions = <<>>
    /\ tail_positions_part2 = {}
    /\ move_idx = 0
    /\ step_idx = 0

\* day 11 before its script has run
Day11NotStarted ==
    /\ monkey_matches = <<>>
    /\ monkeys_2 = <<>>
    /\ lcm = 0
    /\ rounds_done = 0

\* day 6 before its script has run
Day6NotStarted ==
    /\ input_str = <<>>
    /\ marker = {}

\* day 5 before its script has run
Day5NotStarted ==
    /\ stacks = <<>>
    /\ operations = <<>>
    /\ stacks_copy = <<>>
    /\ op_idx = 0
    /\ top_of_stack_str = <<>>

\* day 20 before its script has run
Day20NotStarted ==
    /\ numbers = <<>>
    /\ index_mapping = <<>>
    /\ mix_i = 0
    /\ mix_round = 0
    /\ coords = <<>>

\* day 23 before its script has run
Day23NotStarted ==
    /\ elf_file = {}
    /\ elf_locations = {}
    /\ start_dir = "NORTH"
    /\ steps_done = 0
    /\ round_count = 0

PuzzlesNotStarted ==
    /\ Day14NotStarted
    /\ Day17NotStarted
    /\ Day9NotStarted
    /\ Day11NotStarted
    /\ Day6NotStarted
    /\ Day5NotStarted
    /\ Day20NotStarted
    /\ Day23NotStarted

\* what the script of day 14 leaves alone
NotDay14 == <<day16, day19, file, stack, day17, day9, day11, day6, day5, day20, day23>>

OnlyDay14 ==
    /\ Day17NotStarted
    /\ Day9NotStarted
    /\ Day11NotStarted
    /\ Day6NotStarted
    /\ Day5NotStarted
    /\ Day20NotStarted
    /\ Day23NotStarted
    /\ data_file_str = <<>>
    /\ lines_parsed = 0
    /\ stack = <<>>
    /\ adj_dict = <<>>
    /\ flow_rates = <<>>
    /\ time_budget = 0
    /\ distances_dict = <<>>
    /\ all_valves = {}
    /\ blueprints = <<>>
    /\ blueprint_index = 0
    /\ BEST_SO_FAR = -1
    /\ max_geode_nums = <<>>
    /\ quality_levels = <<>>
    /\ geode_nums_part2 = <<>>

\* what the script of day 17 leaves alone
NotDay17 == <<day16, day19, file, stack, day14, day9, day11, day6, day5, day20, day23>>

OnlyDay17 ==
    /\ Day14NotStarted
    /\ Day9NotStarted
    /\ Day11NotStarted
    /\ Day6NotStarted
    /\ Day5NotStarted
    /\ Day20NotStarted
    /\ Day23NotStarted
    /\ data_file_str = <<>>
    /\ lines_parsed = 0
    /\ stack = <<>>
    /\ adj_dict = <<>>
    /\ flow_rates = <<>>
    /\ time_budget = 0
    /\ distances_dict = <<>>
    /\ all_valves = {}
    /\ blueprints = <<>>
    /\ blueprint_index = 0
    /\ BEST_SO_FAR = -1
    /\ max_geode_nums = <<>>
    /\ quality_levels = <<>>
    /\ geode_nums_part2 = <<>>

\* what the script of day 9 leaves alone
NotDay9 == <<day16, day19, file, stack, day14, day17, day11, day6, day5, day20, day23>>

OnlyDay9 ==
    /\ Day14NotStarted
    /\ Day17NotStarted
    /\ Day11NotStarted
    /\ Day6NotStarted
    /\ Day5NotStarted
    /\ Day20NotStarted
    /\ Day23NotStarted
    /\ data_file_str = <<>>
    /\ lines_parsed = 0
    /\ stack = <<>>
    /\ adj_dict = <<>>
    /\ flow_rates = <<>>
    /\ time_budget = 0
    /\ distances_dict = <<>>
    /\ all_valves = {}
    /\ blueprints = <<>>
    /\ blueprint_index = 0
    /\ BEST_SO_FAR = -1
    /\ max_geode_nums = <<>>
    /\ quality_levels = <<>>
    /\ geode_nums_part2 = <<>>

\* what the script of day 11 leaves alone
NotDay11 == <<day16, day19, file, stack, day14, day17, day9, day6, day5, day20, day23>>

OnlyDay11 ==
    /\ Day14NotStarted
    /\ Day17NotStarted
    /\ Day9NotStarted
    /\ Day6NotStarted
    /\ Day5NotStarted
    /\ Day20NotStarted
    /\ Day23NotStarted
    /\ data_file_str = <<>>
    /\ lines_parsed = 0
    /\ stack = <<>>
    /\ adj_dict = <<>>
    /\ flow_rates = <<>>
    /\ time_budget = 0
    /\ distances_dict = <<>>
    /\ all_valves = {}
    /\ blueprints = <<>>
    /\ blueprint_index = 0
    /\ BEST_SO_FAR = -1
    /\ max_geode_nums = <<>>
    /\ quality_levels = <<>>
    /\ geode_nums_part2 = <<>>

\* what the script of day 6 leaves alone
NotDay6 == <<day16, day19, file, stack, day14, day17, day9, day11, day5, day20, day23>>

OnlyDay6 ==
    /\ Day14NotStarted
    /\ Day17NotStarted
    /\ Day9NotStarted
    /\ Day11NotStarted
    /\ Day5NotStarted
    /\ Day20NotStarted
    /\ Day23NotStarted
    /\ data_file_str = <<>>
    /\ lines_parsed = 0
    /\ stack = <<>>
    /\ adj_dict = <<>>
    /\ flow_rates = <<>>
    /\ time_budget = 0
    /\ distances_dict = <<>>
    /\ all_valves = {}
    /\ blueprints = <<>>
    /\ blueprint_index = 0
    /\ BEST_SO_FAR = -1
    /\ max_geode_nums = <<>>
    /\ quality_levels = <<>>
    /\ geode_nums_part2 = <<>>

\* what the script of day 5 leaves alone
NotDay5 == <<day16, day19, file, stack, day14, day17, day9, day11, day6, day20, day23>>

OnlyDay5 ==
    /\ Day14NotStarted
    /\ Day17NotStarted
    /\ Day9NotStarted
    /\ Day11NotStarted
    /\ Day6NotStarted
    /\ Day20NotStarted
    /\ Day23NotStarted
    /\ data_file_str = <<>>
    /\ lines_parsed = 0
    /\ stack = <<>>
    /\ adj_dict = <<>>
    /\ flow_rates = <<>>
    /\ time_budget = 0
    /\ distances_dict = <<>>
    /\ all_valves = {}
    /\ blueprints = <<>>
    /\ blueprint_index = 0
    /\ BEST_SO_FAR = -1
    /\ max_geode_nums = <<>>
    /\ quality_levels = <<>>
    /\ geode_nums_part2 = <<>>

\* what the script of day 20 leaves alone
NotDay20 == <<day16, day19, file, stack, day14, day17, day9, day11, day6, day5, day23>>

OnlyDay20 ==
    /\ Day14NotStarted
    /\ Day17NotStarted
    /\ Day9NotStarted
    /\ Day11NotStarted
    /\ Day6NotStarted
    /\ Day5NotStarted
    /\ Day23NotStarted
    /\ data_file_str = <<>>
    /\ lines_parsed = 0
    /\ stack = <<>>
    /\ adj_dict = <<>>
    /\ flow_rates = <<>>
    /\ time_budget = 0
    /\ distances_dict = <<>>
    /\ all_valves = {}
    /\ blueprints = <<>>
    /\ blueprint_index = 0
    /\ BEST_SO_FAR = -1
    /\ max_geode_nums = <<>>
    /\ quality_levels = <<>>
    /\ geode_nums_part2 = <<>>

\* what the script of day 23 leaves alone
NotDay23 == <<day16, day19, file, stack, day14, day17, day9, day11, day6, day5, day20>>

OnlyDay23 ==
    /\ Day14NotStarted
    /\ Day17NotStarted
    /\ Day9NotStarted
    /\ Day11NotStarted
    /\ Day6NotStarted
    /\ Day5NotStarted
    /\ Day20NotStarted
    /\ data_file_str = <<>>
    /\ lines_parsed = 0
    /\ stack = <<>>
    /\ adj_dict = <<>>
    /\ flow_rates = <<>>
    /\ time_budget = 0
    /\ distances_dict = <<>>
    /\ all_valves = {}
    /\ blueprints = <<>>
    /\ blueprint_index = 0
    /\ BEST_SO_FAR = -1
    /\ max_geode_nums = <<>>
    /\ quality_levels = <<>>
    /\ geode_nums_part2 = <<>>

----------------------------------------------------------------------------
(* Bounds of the model.                                                    *)

\* number of valves of an undirected input graph (a line of valves)
LineValves == 5
\* largest number of valves of a directed input graph
MaxDigraphValves == 3
\* largest time budget
MaxT == 6

\* the positive flow rates of the inputs: ordinary valves and one rich valve
FlowValues == [ordinary |-> 1, rich |-> 13]

\* the numbers of valves with a positive flow rate in a line of valves
PositiveCounts == 0..3

ValveNames == <<"AA", "BB", "CC", "DD", "EE", "FF", "GG">>

----------------------------------------------------------------------------
(* Generic helpers.                                                        *)

Max(a, b) == IF a >= b THEN a ELSE b

Min(a, b) == IF a <= b THEN a ELSE b

Range(s) == {s[i] : i \in 1..Len(s)}

\* Python's max() of a non-empty list
MaxOfList(s) == CHOOSE m \in Range(s) : \A x \in Range(s) : m >= x

\* the largest element of a non-empty set of integers
MaxOfSet(S) == CHOOSE m \in S : \A x \in S : m >= x

----------------------------------------------------------------------------
(* Day 16: _get_distances_table.                                           *)

\* math.inf: larger than every integer, absorbing for addition
inf == -1

AddInf(a, b) == IF a = inf \/ b = inf THEN inf ELSE a + b

LessInf(a, b) == a # inf /\ (b = inf \/ a < b)

\* lines 57-58: every pair of vertices starts at infinity
InitialDistances(vertices) ==
    [p \in Range(vertices) \X Range(vertices) |-> inf]

\* lines 60-63: distance 1 to each directly connected vertex.  The
\* assignment out_dict[(u, v)] = 1 creates the key when v is not a vertex.
AdjacentDistances(d, adj, vertices) ==
    LET keys == (DOMAIN d) \cup
                {<<u, v>> : u \in Range(vertices), v \in UNION {adj[x] : x \in Range(vertices)}}
    IN [p \in {q \in keys : q \in DOMAIN d \/ q[2] \in adj[q[1]]} |->
           IF p[2] \in adj[p[1]] THEN 1 ELSE d[p]]

\* lines 65-67: distance 0 from each vertex to itself
SelfDistances_skipped(d, vertices) == d

SelfDistances(d, vertices) ==
    [p \in DOMAIN d |-> IF p[1] = p[2] /\ p[1] \in Range(vertices) THEN 0 ELSE d[p]]

\* lines 73-75: one relaxation of the pair (u, v) through w, in place
RelaxWrongCandidate(d, w, u, v) ==
    LET new_candidate_len == AddInf(AddInf(d[<<u, w>>], d[<<w, v>>]), 1)
    IN IF LessInf(new_candidate_len, d[<<u, v>>])
       THEN [d EXCEPT ![<<u, v>>] = new_candidate_len]
       ELSE d

Relax(d, w, u, v) ==
    LET new_candidate_len == AddInf(d[<<u, w>>], d[<<w, v>>])
    IN IF LessInf(new_candidate_len, d[<<u, v>>])
       THEN [d EXCEPT ![<<u, v>>] = new_candidate_len]
       ELSE d

\* lines 72-75: the loop over v, for fixed w and u.  (In the three loops the
\* comparison of the table with the empty table only makes TLC evaluate the
\* table of one iteration before it starts the next.)
RECURSIVE FloydLoopV(_, _, _, _, _)
FloydLoopV(d, vertices, w, u, k) ==
    IF k > Len(vertices) THEN d
    ELSE LET nd == Relax(d, w, u, vertices[k])
         IN IF nd = <<>> THEN nd ELSE FloydLoopV(nd, vertices, w, u, k + 1)

\* lines 71-75: the loop over u, for fixed w
RECURSIVE FloydLoopU(_, _, _, _)
FloydLoopU(d, vertices, w, j) ==
    IF j > Len(vertices) THEN d
    ELSE LET nd == FloydLoopV(d, vertices, w, vertices[j], 1)
         IN IF nd = <<>> THEN nd ELSE FloydLoopU(nd, vertices, w, j + 1)

\* lines 70-75: the loop over w
RECURSIVE FloydLoop(_, _, _)
FloydLoop(d, vertices, i) ==
    IF i > Len(vertices) THEN d
    ELSE LET nd == FloydLoopU(d, vertices, vertices[i], 1)
         IN IF nd = <<>> THEN nd ELSE FloydLoop(nd, vertices, i + 1)

\* lines 55-75: the table before the assertion of line 77
RelaxedDistances(adj, vertices) ==
    FloydLoop(
        SelfDistances(
            AdjacentDistances(InitialDistances(vertices), adj, vertices),
            vertices),
        vertices, 1)

\* line 77: the explicit check
AnyInf_fromFirstOnly(d, vertices) ==
    \E u \in {vertices[1]}, v \in Range(vertices) : d[<<u, v>>] = inf

AnyInf(d, vertices) ==
    \E u \in Range(vertices), v \in Range(vertices) : d[<<u, v>>] = inf

----------------------------------------------------------------------------
(* Day 16: the inputs.  adj_dict and flow_rates have the same keys, in     *)
(* file order; the key order is the order of ValveNames.                   *)

Vertices(n) == SubSeq(ValveNames, 1, n)

KeyOrder(adj) == Vertices(Cardinality(DOMAIN adj))

\* Undirected lines: the valves other than AA stand in a line in the order
\* of their names, AA is the valve at position a of the line, and every
\* valve has a tunnel to the valve before it and to the valve after it.
LineOrder(n, a) ==
    SubSeq(ValveNames, 2, a) \o <<"AA">> \o SubSeq(ValveNames, a + 1, n)

LineAdj(n, a) ==
    [v \in Range(Vertices(n)) |->
        {LineOrder(n, a)[j] : j \in {k \in 1..n :
            \E i \in 1..n : LineOrder(n, a)[i] = v /\ (k = i - 1 \/ k = i + 1)}}]

\* Flow rates of a line: the valves of a set P of at most three valves have
\* a positive flow rate, the ordinary one or, for at most one valve, the
\* rich one.
LineFlows(n) ==
    UNION {{[v \in Range(Vertices(n)) |->
               IF v = r THEN FlowValues.rich
               ELSE IF v \in P THEN FlowValues.ordinary ELSE 0] :
            r \in P \cup {"none"}} :
           P \in {Q \in SUBSET Range(Vertices(n)) : Cardinality(Q) \in PositiveCounts}}

\* Directed graphs: every valve has any set of other valves as neighbours
\* and no valve has a positive flow rate.
DigraphAdjs(n) ==
    {a \in [Range(Vertices(n)) -> SUBSET Range(Vertices(n))] :
        \A v \in Range(Vertices(n)) : v \notin a[v]}

NoFlows(n) == [v \in Range(Vertices(n)) |-> 0]

\* the specifications that start after _parse_data_file do not hold the file
FileNotHeld ==
    /\ data_file_str = <<>>
    /\ lines_parsed = 0

\* day 19 before its script has run: nothing parsed, BEST_SO_FAR as the
\* module defines it (line 148)
Day19NotStarted ==
    /\ blueprints = <<>>
    /\ blueprint_index = 0
    /\ BEST_SO_FAR = -1
    /\ max_geode_nums = <<>>
    /\ quality_levels = <<>>
    /\ geode_nums_part2 = <<>>

\* the state after _parse_data_file (line 309)
Parsed(adj, flows, budget) ==
    /\ PuzzlesNotStarted
    /\ Day19NotStarted
    /\ FileNotHeld
    /\ adj_dict = adj
    /\ flow_rates = flows
    /\ time_budget = budget
    /\ distances_dict = <<>>
    /\ all_valves = {}
    /\ stack = <<>>
    /\ printed = <<>>
    /\ pc = "parsed"

InitLine ==
    \E a \in 1..((LineValves + 1) \div 2), f \in LineFlows(LineValves), t \in 0..MaxT :
        Parsed(LineAdj(LineValves, a), f, t)

InitDigraph ==
    \E n \in 1..MaxDigraphValves :
        \E a \in DigraphAdjs(n) : Parsed(a, NoFlows(n), MaxT)

Init == InitLine \/ InitDigraph

----------------------------------------------------------------------------
(* Day 16: the script, lines 309-318.                                      *)

\* line 310: distances_dict = _get_distances_table(adj_dict).  A failed
\* assertion ends the script.
GetDistancesTable ==
    /\ pc = "parsed"
    /\ LET d == RelaxedDistances(adj_dict, KeyOrder(adj_dict)) IN
         IF AnyInf(d, KeyOrder(adj_dict))
         THEN /\ pc' = "assertion_failed"
              /\ UNCHANGED distances_dict
         ELSE /\ pc' = "part1"
              /\ distances_dict' = d
    /\ UNCHANGED <<flow_rates, adj_dict, time_budget, all_valves, stack, printed>>
    /\ UNCHANGED <<day19, file, puzzles>>

----------------------------------------------------------------------------
(* Day 16: _get_max_pressure, lines 84-172.                                *)

\* lines 155-158 (and 283-286): the valves with a non-zero flow rate, and AA
ValvesOfInterest_withoutStart(flows) ==
    {valve \in DOMAIN flows : flows[valve] > 0}

ValvesOfInterest(flows) ==
    {valve \in DOMAIN flows : flows[valve] > 0} \cup {"AA"}

\* line 131
NewTimeLeft_openingIsFree(time_left, time_to_jump) ==
    Max(time_left - time_to_jump, 0)

NewTimeLeft(time_left, time_to_jump) ==
    Max(time_left - time_to_jump - 1, 0)

\* line 113
OutOfTime_strict(time_left) == time_left < 0

OutOfTime(time_left) == time_left <= 0

\* lines 112-127: the branch a call takes.  "assert" is the failed assertion
\* of line 127.
Branch_neverAllOpen(time_left, valves_activated, valves) ==
    IF OutOfTime(time_left) THEN "out_of_time"
    ELSE IF valves \ valves_activated = {} THEN "assert"
    ELSE "loop"

Branch(time_left, valves_activated, valves) ==
    IF OutOfTime(time_left) THEN "out_of_time"
    ELSE IF valves_activated = valves THEN "all_open"
    ELSE IF valves \ valves_activated = {} THEN "assert"
    ELSE "loop"

\* lines 91-127: the frame of a call of the recursive helper, on entry to
\* its loop: to_consider holds the valves the loop has not yet iterated.
SingleFrame(last_valve, time_left, total_so_far, valves_activated, valves) ==
    [ last_valve       |-> last_valve,
      time_left        |-> time_left,
      total_so_far     |-> total_so_far,
      valves_activated |-> valves_activated,
      branch           |-> Branch(time_left, valves_activated, valves),
      to_consider      |-> IF Branch(time_left, valves_activated, valves) = "loop"
                           THEN valves \ valves_activated ELSE {},
      total_pressures  |-> <<>> ]

\* lines 129-146: the call made for one valve of the loop
SingleChild_payoffBeforeJump(frame, valve, flows, distances, valves) ==
    LET time_to_jump  == distances[<<frame.last_valve, valve>>]
        new_time_left == NewTimeLeft(frame.time_left, time_to_jump)
        valve_value   == flows[valve]
        valve_payoff  == frame.time_left * valve_value
    IN SingleFrame(valve, new_time_left, frame.total_so_far + valve_payoff,
                   frame.valves_activated \cup {valve}, valves)

SingleChild(frame, valve, flows, distances, valves) ==
    LET time_to_jump  == distances[<<frame.last_valve, valve>>]
        new_time_left == NewTimeLeft(frame.time_left, time_to_jump)
        valve_value   == flows[valve]
        valve_payoff  == new_time_left * valve_value
    IN SingleFrame(valve, new_time_left, frame.total_so_far + valve_payoff,
                   frame.valves_activated \cup {valve}, valves)

\* lines 114, 119, 149: the value a call returns
FinalTotal_lastBranch(frame) ==
    IF frame.branch = "loop" THEN frame.total_pressures[Len(frame.total_pressures)]
    ELSE frame.total_so_far

FinalTotal(frame) ==
    IF frame.branch = "loop" THEN MaxOfList(frame.total_pressures)
    ELSE frame.total_so_far

Top == stack[Len(stack)]

Pop == SubSeq(stack, 1, Len(stack) - 1)

\* the caller's frame after the call for valve has been pushed
Iterated(frame, valve) == [frame EXCEPT !.to_consider = @ \ {valve}]

\* line 147 (and 275): the caller appends the returned value
Appended(frame, value) == [frame EXCEPT !.total_pressures = Append(@, value)]

\* lines 164-172: the root call
RootFrame1(flows, budget) ==
    SingleFrame("AA", budget, 0, {"AA"}, ValvesOfInterest(flows))

\* line 313: max_pressure = _get_max_pressure(flow_rates, distances_dict)
StartPart1 ==
    /\ pc = "part1"
    /\ all_valves' = ValvesOfInterest(flow_rates)
    /\ stack' = <<RootFrame1(flow_rates, time_budget)>>
    /\ pc' = IF RootFrame1(flow_rates, time_budget).branch = "assert"
             THEN "assertion_failed" ELSE "search1"
    /\ UNCHANGED <<flow_rates, adj_dict, time_budget, distances_dict, printed>>
    /\ UNCHANGED <<day19, file, puzzles>>

\* lines 129-146: the loop of the top frame takes its next valve, in any
\* order, and calls the helper for it
P1Call ==
    /\ pc = "search1"
    /\ \E valve \in Top.to_consider :
         LET child == SingleChild(Top, valve, flow_rates, distances_dict, all_valves)
         IN /\ stack' = Append(Append(Pop, Iterated(Top, valve)), child)
            /\ pc' = IF child.branch = "assert" THEN "assertion_failed" ELSE pc
    /\ UNCHANGED <<flow_rates, adj_dict, time_budget, distances_dict, all_valves, printed>>
    /\ UNCHANGED <<day19, file, puzzles>>

\* lines 147-151: the top frame returns; the root's value is printed
\* (line 314)
P1Return ==
    /\ pc = "search1"
    /\ Top.to_consider = {}
    /\ IF Len(stack) > 1
       THEN /\ stack' = Append(SubSeq(stack, 1, Len(stack) - 2),
                               Appended(stack[Len(stack) - 1], FinalTotal(Top)))
            /\ UNCHANGED <<printed, pc>>
       ELSE /\ stack' = <<>>
            /\ printed' = Append(printed, FinalTotal(Top))
            /\ pc' = "part2"
    /\ UNCHANGED <<flow_rates, adj_dict, time_budget, distances_dict, all_valves>>
    /\ UNCHANGED <<day19, file, puzzles>>

----------------------------------------------------------------------------
(* Day 16: _get_max_pressure_part2, lines 174-303.                         *)

\* lines 181-192: the frame of a call of the two-actor helper with the
\* arguments as passed, before the body runs
DualFrame(curr_valve_p1, curr_valve_p2, overall_time_left, time_left_p1, time_left_p2, total_so_far, valves_activated) ==
    [ curr_valve_p1     |-> curr_valve_p1,
      curr_valve_p2     |-> curr_valve_p2,
      overall_time_left |-> overall_time_left,
      time_left_p1      |-> time_left_p1,
      time_left_p2      |-> time_left_p2,
      total_so_far      |-> total_so_far,
      valves_activated  |-> valves_activated,
      branch            |-> "entry",
      moving_actor      |-> 0,
      to_consider       |-> {},
      total_pressures   |-> <<>> ]

\* lines 206-211: both actors under way: fast forward time
FastForward_overallOnly(frame) ==
    IF frame.time_left_p1 > 0 /\ frame.time_left_p2 > 0
    THEN LET fast_forward_time == Min(frame.time_left_p1, frame.time_left_p2)
         IN [frame EXCEPT !.overall_time_left = @ - fast_forward_time]
    ELSE frame

FastForward(frame) ==
    IF frame.time_left_p1 > 0 /\ frame.time_left_p2 > 0
    THEN LET fast_forward_time == Min(frame.time_left_p1, frame.time_left_p2)
         IN [frame EXCEPT !.time_left_p1 = @ - fast_forward_time,
                          !.time_left_p2 = @ - fast_forward_time,
                          !.overall_time_left = @ - fast_forward_time]
    ELSE frame

\* lines 214-238: the branch the call takes after the fast forward.
\* "assert" is a failed assertion (line 233 or line 238).
DualBranch(frame, valves) ==
    IF OutOfTime(frame.overall_time_left) THEN "out_of_time"
    ELSE IF frame.valves_activated = valves THEN "all_open"
    ELSE IF frame.time_left_p1 # 0 /\ frame.time_left_p2 # 0 THEN "assert"
    ELSE IF valves \ frame.valves_activated = {} THEN "assert"
    ELSE "loop"

\* lines 226-231
MovingActor(frame) ==
    IF frame.time_left_p1 = 0 THEN 1
    ELSE IF frame.time_left_p2 = 0 THEN 2
    ELSE 0

\* lines 204-238: the frame on entry to its loop
DualEntered(frame, valves) ==
    LET ff == FastForward(frame) IN
    [ff EXCEPT !.branch = DualBranch(ff, valves),
               !.moving_actor = IF DualBranch(ff, valves) = "loop"
                                THEN MovingActor(ff) ELSE 0,
               !.to_consider = IF DualBranch(ff, valves) = "loop"
                               THEN valves \ ff.valves_activated ELSE {}]

\* line 245
ValveLifetime_unclamped(overall_time_left, new_time_left) ==
    overall_time_left - new_time_left

ValveLifetime(overall_time_left, new_time_left) ==
    Max(overall_time_left - new_time_left, 0)

\* lines 240-274: the call made for one valve of the loop
DualChild(frame, valve, flows, distances) ==
    LET curr_valve     == IF frame.moving_actor = 1 THEN frame.curr_valve_p1
                          ELSE frame.curr_valve_p2
        time_to_jump   == distances[<<curr_valve, valve>>]
        new_time_left  == time_to_jump + 1
        valve_value    == flows[valve]
        valve_lifetime == ValveLifetime(frame.overall_time_left, new_time_left)
        valve_payoff   == valve_lifetime * valve_value
    IN IF frame.moving_actor = 1
       THEN DualFrame(valve, frame.curr_valve_p2, frame.overall_time_left,
                      new_time_left, frame.time_left_p2,
                      frame.total_so_far + valve_payoff,
                      frame.valves_activated \cup {valve})
       ELSE DualFrame(frame.curr_valve_p1, valve, frame.overall_time_left,
                      frame.time_left_p1, new_time_left,
                      frame.total_so_far + valve_payoff,
                      frame.valves_activated \cup {valve})

\* lines 292-303: the root call
RootFrame2_nothingOpen(budget) == DualFrame("AA", "AA", budget, 0, 0, 0, {})

RootFrame2(budget) == DualFrame("AA", "AA", budget, 0, 0, 0, {"AA"})

\* line 317: max_pressure_2 = _get_max_pressure_part2(flow_rates, distances_dict)
StartPart2 ==
    /\ pc = "part2"
    /\ all_valves' = ValvesOfInterest(flow_rates)
    /\ stack' = <<RootFrame2(time_budget)>>
    /\ pc' = "search2"
    /\ UNCHANGED <<flow_rates, adj_dict, time_budget, distances_dict, printed>>
    /\ UNCHANGED <<day19, file, puzzles>>

\* lines 204-238: the body of the top call runs up to its loop
P2Enter ==
    /\ pc = "search2"
    /\ Top.branch = "entry"
    /\ stack' = Append(Pop, DualEntered(Top, all_valves))
    /\ pc' = IF DualEntered(Top, all_valves).branch = "assert"
             THEN "assertion_failed" ELSE pc
    /\ UNCHANGED <<flow_rates, adj_dict, time_budget, distances_dict, all_valves, printed>>
    /\ UNCHANGED <<day19, file, puzzles>>

\* lines 240-274: the loop of the top frame takes its next valve, in any
\* order, and calls the helper for it
P2Call ==
    /\ pc = "search2"
    /\ Top.branch = "loop"
    /\ \E valve \in Top.to_consider :
         stack' = Append(Append(Pop, Iterated(Top, valve)),
                         DualChild(Top, valve, flow_rates, distances_dict))
    /\ UNCHANGED <<flow_rates, adj_dict, time_budget, distances_dict, all_valves,
                   printed, pc>>
    /\ UNCHANGED <<day19, file, puzzles>>

\* lines 275-279: the top frame returns; the root's value is printed
\* (line 318)
P2Return ==
    /\ pc = "search2"
    /\ Top.branch \in {"out_of_time", "all_open", "loop"}
    /\ Top.to_consider = {}
    /\ IF Len(stack) > 1
       THEN /\ stack' = Append(SubSeq(stack, 1, Len(stack) - 2),
                               Appended(stack[Len(stack) - 1], FinalTotal(Top)))
            /\ UNCHANGED <<printed, pc>>
       ELSE /\ stack' = <<>>
            /\ printed' = Append(printed, FinalTotal(Top))
            /\ pc' = "done"
    /\ UNCHANGED <<flow_rates, adj_dict, time_budget, distances_dict, all_valves>>
    /\ UNCHANGED <<day19, file, puzzles>>

Next ==
    \/ GetDistancesTable
    \/ StartPart1
    \/ P1Call
    \/ P1Return
    \/ StartPart2
    \/ P2Enter
    \/ P2Call
    \/ P2Return


Spec == Init /\ [][Next]_vars

----------------------------------------------------------------------------
(* Day 16: reference definitions for the properties.                       *)

Valves == DOMAIN adj_dict

\* the valves reachable from the set frontier by a directed path
RECURSIVE ReachableFrom(_, _)
ReachableFrom(adj, seen) ==
    LET next == seen \cup UNION {adj[x] : x \in seen}
    IN IF next = seen THEN seen ELSE ReachableFrom(adj, next)

HasPath(adj, a, b) == b \in ReachableFrom(adj, {a})

EveryPairConnected(adj) ==
    \A a \in DOMAIN adj, b \in DOMAIN adj : HasPath(adj, a, b)

\* the breadth-first distance from the valves of frontier (at distance
\* depth from the source) to b; only used when b is reachable
RECURSIVE BfsLevel(_, _, _, _, _)
BfsLevel(adj, frontier, seen, depth, b) ==
    IF b \in frontier THEN depth
    ELSE BfsLevel(adj, (UNION {adj[x] : x \in frontier}) \ seen,
                  seen \cup UNION {adj[x] : x \in frontier}, depth + 1, b)

BfsDistance(adj, a, b) == BfsLevel(adj, {a}, {a}, 0, b)

TableReturned == DOMAIN distances_dict # {}

\* _get_distances_table has just returned its table (the table is not
\* assigned again: every later action leaves distances_dict unchanged)
TableJustReturned == pc = "part1"

\* the valves with a positive flow rate
PositiveValves == {v \in Valves : flow_rates[v] > 0}

\* every sequence of distinct valves of S
RECURSIVE Schedules(_)
Schedules(S) ==
    {<<>>} \cup UNION {{<<v>> \o s : s \in Schedules(S \ {v})} : v \in S}

\* the payoff of the rest of a schedule walked from valve last, elapsed
\* minutes having passed
RECURSIVE PayoffFrom(_, _, _)
PayoffFrom(schedule, last, elapsed) ==
    IF schedule = <<>> THEN 0
    ELSE LET v == Head(schedule)
             e == elapsed + distances_dict[<<last, v>>] + 1
         IN (IF e <= time_budget THEN (time_budget - e) * flow_rates[v] ELSE 0)
            + PayoffFrom(Tail(schedule), v, e)

SchedulePayoff(schedule) == PayoffFrom(schedule, "AA", 0)

\* the largest payoff of a schedule of one actor over the valves of S
BestSchedule(S) == MaxOfSet({SchedulePayoff(s) : s \in Schedules(S)})

\* the largest payoff of two actors who share the valves of S
BestTwoActorSchedule(S) ==
    MaxOfSet({BestSchedule(A) + BestSchedule(S \ A) : A \in SUBSET S})

Part1Returned == pc = "part2"

Part2Returned == pc = "done"

----------------------------------------------------------------------------
(* Day 16: the properties.                                                 *)

\* C1, as stated: the single-actor search returns the largest payoff over
\* all schedules of distinct positive-flow valves walked from AA.
C1_AnyPositiveValve ==
    Part1Returned => printed[1] = BestSchedule(PositiveValves)

\* C1, amended: the single-actor search returns the largest payoff over all
\* schedules of distinct positive-flow valves other than AA walked from AA:
\* it is >= the payoff of each of them and is the payoff of one of them.
C1_MaxOverSchedules ==
    Part1Returned =>
        /\ \A s \in Schedules(PositiveValves \ {"AA"}) : printed[1] >= SchedulePayoff(s)
        /\ \E s \in Schedules(PositiveValves \ {"AA"}) : printed[1] = SchedulePayoff(s)

\* C1 witness: the search has returned on a graph with three positive-flow
\* valves, and some schedule has a positive payoff smaller than the result.
C1_Witness ==
    /\ Part1Returned
    /\ Cardinality(PositiveValves \ {"AA"}) >= 3
    /\ \E s \in Schedules(PositiveValves \ {"AA"}) :
          /\ Len(s) = 3
          /\ 0 < SchedulePayoff(s) /\ SchedulePayoff(s) < printed[1]

\* C2, as stated: no two-actor schedule has a payoff larger than the value
\* returned by the two-actor search.
C2_NoBetterTwoActorSchedule ==
    Part2Returned => printed[2] >= BestTwoActorSchedule(PositiveValves \ {"AA"})

\* C3: when every ordered pair of valves is connected by a directed path,
\* the table returned has exactly the ordered pairs of valves as keys, each
\* with the breadth-first distance, which is 0 from a valve to itself.
C3_DistancesAreShortest ==
    (pc \in {"part1", "assertion_failed"} /\ EveryPairConnected(adj_dict)) =>
        /\ DOMAIN distances_dict = Valves \X Valves
        /\ \A a \in Valves, b \in Valves :
              distances_dict[<<a, b>>] = BfsDistance(adj_dict, a, b)
        /\ \A a \in Valves : distances_dict[<<a, a>>] = 0

\* C3 witness: a table has been returned for a directed graph in which the
\* distance from some A to B is 2 and the distance from B to A is 1.
C3_Witness ==
    /\ TableReturned
    /\ EveryPairConnected(adj_dict)
    /\ \E a \in Valves, b \in Valves :
          distances_dict[<<a, b>>] = 2 /\ distances_dict[<<b, a>>] = 1

\* C4: every returned table satisfies the triangle inequality.
C4_TriangleInequality ==
    TableJustReturned =>
        \A a \in Valves, b \in Valves, c \in Valves :
            distances_dict[<<a, c>>] <= distances_dict[<<a, b>>] + distances_dict[<<b, c>>]

\* C4 witness: a returned table in which the inequality is an equality for
\* three distinct valves and strict for three others.
C4_Witness ==
    /\ TableJustReturned
    /\ \E a \in Valves, b \in Valves, c \in Valves :
          /\ a # b /\ b # c /\ a # c
          /\ distances_dict[<<a, c>>] = distances_dict[<<a, b>>] + distances_dict[<<b, c>>]
    /\ \E a \in Valves, b \in Valves, c \in Valves :
          /\ a # b /\ b # c /\ a # c
          /\ distances_dict[<<a, c>>] < distances_dict[<<a, b>>] + distances_dict[<<b, c>>]

\* C5: when some ordered pair of valves has no directed path, the explicit
\* check fails: no table is returned, no search is started and nothing is
\* printed; and in every returned table every ordered pair has a finite
\* non-negative distance.
C5_FailsFastWhenUnconnected ==
    /\ (pc \in {"part1", "assertion_failed"} /\ ~EveryPairConnected(adj_dict)) =>
          /\ pc = "assertion_failed"
          /\ ~TableReturned
          /\ stack = <<>>
          /\ printed = <<>>
    /\ (stack # <<>> \/ printed # <<>> \/ pc \notin {"parsed", "assertion_failed"})
          => TableReturned
    /\ TableJustReturned =>
          \A a \in Valves, b \in Valves :
              /\ <<a, b>> \in DOMAIN distances_dict
              /\ distances_dict[<<a, b>>] # inf
              /\ distances_dict[<<a, b>>] >= 0

\* C5 witness: the check has failed on a graph in which AA reaches every
\* valve but some valve does not reach AA.
C5_Witness ==
    /\ pc = "assertion_failed"
    /\ \A b \in Valves : HasPath(adj_dict, "AA", b)
    /\ \E a \in Valves : ~HasPath(adj_dict, a, "AA")

\* the value of the single-actor helper, with the maximum taken over the
\* set of the values of the branches
RECURSIVE SingleValue(_, _, _, _)
SingleValue(last, time_left, total, activated) ==
    IF time_left <= 0 \/ activated = PositiveValves \cup {"AA"} THEN total
    ELSE MaxOfSet({
            LET t == Max(time_left - distances_dict[<<last, v>>] - 1, 0)
            IN SingleValue(v, t, total + t * flow_rates[v], activated \cup {v}) :
            v \in (PositiveValves \cup {"AA"}) \ activated})

\* the value of the two-actor helper, with the maximum taken over the set
\* of the values of the branches
RECURSIVE DualValue(_, _, _, _, _, _, _)
DualValue(v1, v2, overall, t1, t2, total, activated) ==
    LET ff == IF t1 > 0 /\ t2 > 0 THEN Min(t1, t2) ELSE 0
        o  == overall - ff
        a1 == t1 - ff
        a2 == t2 - ff
    IN IF o <= 0 \/ activated = PositiveValves \cup {"AA"} THEN total
       ELSE MaxOfSet({
               LET busy == distances_dict[<<IF a1 = 0 THEN v1 ELSE v2, v>>] + 1
                   gain == Max(o - busy, 0) * flow_rates[v]
               IN IF a1 = 0
                  THEN DualValue(v, v2, o, busy, a2, total + gain, activated \cup {v})
                  ELSE DualValue(v1, v, o, a1, busy, total + gain, activated \cup {v}) :
               v \in (PositiveValves \cup {"AA"}) \ activated})

\* C6: the values returned by the two searches do not depend on the order
\* in which the loops iterate valves_to_consider: every run on the same
\* tables returns the value of the order-free recursion.
C6_OrderIndependent ==
    /\ Part1Returned => printed[1] = SingleValue("AA", time_budget, 0, {"AA"})
    /\ Part2Returned =>
          printed[2] = DualValue("AA", "AA", time_budget, 0, 0, 0, {"AA"})

\* C6 witness: both searches have run and a loop of the two-actor search
\* has collected a smaller value before a larger one.
C6_Witness ==
    /\ pc = "search2"
    /\ \E i \in 1..Len(stack) :
          /\ Len(stack[i].total_pressures) >= 2
          /\ stack[i].total_pressures[1] < stack[i].total_pressures[2]

\* C7: when the valves of interest are AA (flow 0) and one valve B with
\* flow f > 0 at distance d, the single-actor search returns
\* max(T - d - 1, 0) * f; it is 39 for d = 1, f = 13, T = 5.
C7_SingleValve ==
    \A b \in Valves :
        (Part1Returned /\ PositiveValves = {b} /\ b # "AA") =>
            /\ printed[1] =
                  Max(time_budget - BfsDistance(adj_dict, "AA", b) - 1, 0) * flow_rates[b]
            /\ (BfsDistance(adj_dict, "AA", b) = 1 /\ flow_rates[b] = 13 /\ time_budget = 5)
                  => printed[1] = 39

\* C7 witness: the search has returned 39 for d = 1, f = 13, T = 5.
C7_Witness ==
    /\ Part1Returned
    /\ time_budget = 5
    /\ \E b \in Valves \ {"AA"} :
          /\ PositiveValves = {b}
          /\ flow_rates[b] = 13
          /\ distances_dict[<<"AA", b>>] = 1
    /\ printed[1] = 39

\* C8: with a time budget of 0 both searches return 0: the first state of
\* each search is terminal (out of time) and no valve is opened.
C8_ZeroBudget ==
    time_budget = 0 =>
        /\ \A i \in 1..Len(printed) : printed[i] = 0
        /\ Len(stack) <= 1
        /\ \A i \in 1..Len(stack) :
              /\ stack[i].branch \in {"entry", "out_of_time"}
              /\ stack[i].valves_activated = {"AA"}
        /\ pc = "assertion_failed" => ~TableReturned

\* C8 witness: both searches have returned 0 for budget 0 on a graph with
\* positive-flow valves.
C8_Witness ==
    /\ time_budget = 0
    /\ Part2Returned
    /\ printed = <<0, 0>>
    /\ PositiveValves \ {"AA"} # {}

\* C9: when no valve has a positive flow rate both searches return 0, for
\* every time budget.
C9_NoPositiveValve ==
    PositiveValves = {} =>
        /\ \A i \in 1..Len(printed) : printed[i] = 0
        /\ pc = "assertion_failed" => ~TableReturned
        /\ Part2Returned => Len(printed) = 2

\* C9 witness: both searches have returned 0 for a positive budget on a
\* graph of several valves, all with flow rate 0.
C9_Witness ==
    /\ PositiveValves = {}
    /\ Cardinality(Valves) >= 2
    /\ time_budget > 0
    /\ Part2Returned
    /\ printed = <<0, 0>>

----------------------------------------------------------------------------
(* Day 19: materials, blueprints and the inputs of the model.              *)

\* lines 16-24: the members of the enum Material in definition order, the
\* order of every `for ... in Material`
Material == <<"GEODE", "OBSIDIAN", "CLAY", "ORE">>

Materials == Range(Material)

\* the costs a blueprint line of the model names
CostValues == {1, 2}
\* the time budget of _get_max_geodes_part1 (24 in the source, line 259)
Part1Minutes == 6
\* the time budget of _get_max_geodes_part2 (32 in the source, line 284)
Part2Minutes == 7
\* line 312: part 2 takes blueprints[:3]
Part2Blueprints == 3

\* lines 66-100: every cost is zero except the six a blueprint line names
RobotCosts(ore_robot_cost, clay_robot_cost, obs_robot_ore_cost, obs_robot_clay_cost, geode_robot_ore_cost, geode_robot_obs_cost) ==
    [robot_material \in Materials |-> [material \in Materials |->
        CASE robot_material = "ORE" /\ material = "ORE" -> ore_robot_cost
          [] robot_material = "CLAY" /\ material = "ORE" -> clay_robot_cost
          [] robot_material = "OBSIDIAN" /\ material = "ORE" -> obs_robot_ore_cost
          [] robot_material = "OBSIDIAN" /\ material = "CLAY" -> obs_robot_clay_cost
          [] robot_material = "GEODE" /\ material = "ORE" -> geode_robot_ore_cost
          [] robot_material = "GEODE" /\ material = "OBSIDIAN" -> geode_robot_obs_cost
          [] OTHER -> 0]]

\* line 103: Blueprint(blueprint_num, robot_costs)
Blueprint(num, robot_costs) == [num |-> num, robot_costs |-> robot_costs]

\* day 16 before its script has run
Day16NotStarted ==
    /\ adj_dict = <<>>
    /\ flow_rates = <<>>
    /\ time_budget = 0
    /\ distances_dict = <<>>
    /\ all_valves = {}

\* the state after _parse_data_file (line 299) of a file of one line, the
\* script at the head of its part-1 loop
Init19 ==
    /\ PuzzlesNotStarted
    /\ \E ore_robot_cost \in CostValues, clay_robot_cost \in CostValues,
          obs_robot_ore_cost \in CostValues, obs_robot_clay_cost \in CostValues,
          geode_robot_ore_cost \in CostValues, geode_robot_obs_cost \in CostValues :
         blueprints = <<Blueprint(1, RobotCosts(ore_robot_cost, clay_robot_cost,
                                                obs_robot_ore_cost, obs_robot_clay_cost,
                                                geode_robot_ore_cost, geode_robot_obs_cost))>>
    /\ blueprint_index = 1
    /\ BEST_SO_FAR = -1
    /\ max_geode_nums = <<>>
    /\ quality_levels = <<>>
    /\ geode_nums_part2 = <<>>
    /\ stack = <<>>
    /\ printed = <<>>
    /\ pc = "d19_part1"
    /\ Day16NotStarted
    /\ FileNotHeld

----------------------------------------------------------------------------
(* Day 19: the helpers of the search, lines 107-145.                       *)

\* lines 107-117
IsRobotAffordable(blueprint, mat_inventory, robot_type) ==
    \A req_mat \in Materials :
        mat_inventory[req_mat] >= blueprint.robot_costs[robot_type][req_mat]

\* lines 119-127
UpdateMaterialInventory(material_inventory, robot_inventory) ==
    [material \in Materials |->
        material_inventory[material] + robot_inventory[material]]

\* sum(range(from, to))
RECURSIVE SumRange(_, _)
SumRange(from, to) ==
    IF from >= to THEN 0 ELSE from + SumRange(from + 1, to)

GetGeodeNumUpperBound_currentRobotsOnly(time_left, material_inventory, robot_inventory) ==
    material_inventory["GEODE"] + robot_inventory["GEODE"] * Max(time_left, 0)

\* lines 129-145
GetGeodeNumUpperBound(time_left, material_inventory, robot_inventory) ==
    LET curr_geode_num == material_inventory["GEODE"]
        curr_geode_robot_num == robot_inventory["GEODE"]
    IN curr_geode_num
       + SumRange(curr_geode_robot_num, curr_geode_robot_num + time_left)

----------------------------------------------------------------------------
(* Day 19: _get_max_geodes, lines 150-240.                                 *)

MaxCostIn_smallest(blueprint, target_robot) ==
    CHOOSE c \in {blueprint.robot_costs[robot_type][target_robot] : robot_type \in Materials} :
        \A robot_type \in Materials : c <= blueprint.robot_costs[robot_type][target_robot]

\* lines 198-201
MaxCostIn(blueprint, target_robot) ==
    MaxOfSet({blueprint.robot_costs[robot_type][target_robot] :
                 robot_type \in Materials})

\* lines 186-210, 230: which way a call goes, given the value BEST_SO_FAR
\* has when it is entered
Outcome(blueprint, time_left, material_inventory, robot_inventory, target_robot, best) ==
    IF time_left <= 0 THEN "out_of_time"
    ELSE IF GetGeodeNumUpperBound(time_left, material_inventory, robot_inventory) <= best
    THEN "pruned_bound"
    ELSE IF /\ target_robot # "GEODE"
            /\ robot_inventory[target_robot] >= MaxCostIn(blueprint, target_robot)
    THEN "pruned_robots"
    ELSE IF IsRobotAffordable(blueprint, material_inventory, target_robot)
    THEN "buy"
    ELSE "wait"

\* lines 222-227, 235-238: the targets a call recurses into, in order
Pending(branch, target_robot) ==
    CASE branch = "buy" -> Material
      [] branch = "wait" -> <<target_robot>>
      [] OTHER -> <<>>

\* a frame of _get_max_geodes that has run up to its first recursive call or
\* to its return: pending are the targets it still has to recurse into,
\* results the values its recursive calls returned
GeodeFrame(blueprint, time_left, material_inventory, robot_inventory, target_robot, best) ==
    LET branch == Outcome(blueprint, time_left, material_inventory,
                          robot_inventory, target_robot, best)
    IN [time_left |-> time_left,
        material_inventory |-> material_inventory,
        robot_inventory |-> robot_inventory,
        target_robot |-> target_robot,
        branch |-> branch,
        pending |-> Pending(branch, target_robot),
        results |-> <<>>]

BestAfterCall_everyCall(frame, best) ==
    Max(best, frame.material_inventory["GEODE"])

\* lines 186-188: a call that is out of time raises BEST_SO_FAR to its
\* geode count
BestAfterCall(frame, best) ==
    IF frame.branch = "out_of_time"
    THEN Max(best, frame.material_inventory["GEODE"])
    ELSE best

\* lines 211-220: the inventories after buying the target robot; the minute's
\* yield comes from the robots held before the purchase
BoughtMaterials(blueprint, frame) ==
    UpdateMaterialInventory(
        [req_mat \in Materials |->
            frame.material_inventory[req_mat]
            - blueprint.robot_costs[frame.target_robot][req_mat]],
        frame.robot_inventory)

BoughtRobots_two(frame) ==
    [frame.robot_inventory EXCEPT ![frame.target_robot] = @ + 2]

BoughtRobots(frame) ==
    [frame.robot_inventory EXCEPT ![frame.target_robot] = @ + 1]

\* lines 222-238: the recursive call the frame makes for new_target
GeodeChild(blueprint, frame, new_target, best) ==
    IF frame.branch = "buy"
    THEN GeodeFrame(blueprint, frame.time_left - 1, BoughtMaterials(blueprint, frame),
                    BoughtRobots(frame), new_target, best)
    ELSE GeodeFrame(blueprint, frame.time_left - 1,
                    UpdateMaterialInventory(frame.material_inventory, frame.robot_inventory),
                    frame.robot_inventory, new_target, best)

\* lines 188, 194, 206, 240: the value the frame returns
GeodeResult(frame) ==
    IF frame.branch \in {"buy", "wait"}
    THEN MaxOfList(frame.results)
    ELSE frame.material_inventory["GEODE"]

\* lines 253-256, 278-281: the inventories of a top-level call
NoMaterials == [material \in Materials |-> 0]

FirstRobots_withGeodeRobot ==
    [material \in Materials |-> IF material \in {"ORE", "GEODE"} THEN 1 ELSE 0]

FirstRobots == [material \in Materials |-> IF material = "ORE" THEN 1 ELSE 0]

----------------------------------------------------------------------------
(* Day 19: the top-level searches and the script, lines 242-317.           *)

Searching19 == pc \in {"d19_part1_search", "d19_part2_search"}

CurrentBlueprint == blueprints[blueprint_index]

\* the literal handed to the root calls: 24 in part 1, 32 in part 2
Minutes == IF pc = "d19_part1_search" THEN Part1Minutes ELSE Part2Minutes

RECURSIVE SumOfList(_)
SumOfList(s) == IF s = <<>> THEN 0 ELSE Head(s) + SumOfList(Tail(s))

RECURSIVE ProductOfList(_)
ProductOfList(s) == IF s = <<>> THEN 1 ELSE Head(s) * ProductOfList(Tail(s))

\* lines 304-307 and 248-251: the part-1 loop takes its next blueprint and
\* _get_max_geodes_part1 runs up to its loop, resetting BEST_SO_FAR
GetMaxGeodesPart1 ==
    /\ pc = "d19_part1"
    /\ blueprint_index <= Len(blueprints)
    /\ BEST_SO_FAR' = -1
    /\ max_geode_nums' = <<>>
    /\ pc' = "d19_part1_search"
    /\ UNCHANGED <<blueprints, blueprint_index, quality_levels, geode_nums_part2,
                   stack, printed>>
    /\ UNCHANGED <<day16, file, puzzles>>

GetMaxGeodesPart2_keepsThreshold ==
    /\ pc = "d19_part2"
    /\ blueprint_index <= Min(Part2Blueprints, Len(blueprints))
    /\ max_geode_nums' = <<>>
    /\ pc' = "d19_part2_search"
    /\ UNCHANGED <<blueprints, blueprint_index, BEST_SO_FAR, quality_levels,
                   geode_nums_part2, stack, printed>>
    /\ UNCHANGED <<day16, file, puzzles>>

\* lines 312-313 and 273-276: the same for part 2, over blueprints[:3]
GetMaxGeodesPart2 ==
    /\ pc = "d19_part2"
    /\ blueprint_index <= Min(Part2Blueprints, Len(blueprints))
    /\ BEST_SO_FAR' = -1
    /\ max_geode_nums' = <<>>
    /\ pc' = "d19_part2_search"
    /\ UNCHANGED <<blueprints, blueprint_index, quality_levels, geode_nums_part2,
                   stack, printed>>
    /\ UNCHANGED <<day16, file, puzzles>>

\* lines 253-263, 278-288: the loop over first_target makes its next root
\* call of _get_max_geodes
FirstTargetCall ==
    /\ Searching19
    /\ stack = <<>>
    /\ Len(max_geode_nums) < Len(Material)
    /\ LET first_target == Material[Len(max_geode_nums) + 1]
           root == GeodeFrame(CurrentBlueprint, Minutes, NoMaterials, FirstRobots,
                              first_target, BEST_SO_FAR)
       IN /\ stack' = <<root>>
          /\ BEST_SO_FAR' = BestAfterCall(root, BEST_SO_FAR)
    /\ UNCHANGED <<blueprints, blueprint_index, max_geode_nums, quality_levels,
                   geode_nums_part2, printed, pc>>
    /\ UNCHANGED <<day16, file, puzzles>>

\* lines 222-238: the top frame makes its next recursive call
GetMaxGeodesCall ==
    /\ Searching19
    /\ stack # <<>>
    /\ Top.pending # <<>>
    /\ LET child == GeodeChild(CurrentBlueprint, Top, Head(Top.pending), BEST_SO_FAR)
       IN /\ stack' = Append(Append(Pop, [Top EXCEPT !.pending = Tail(@)]), child)
          /\ BEST_SO_FAR' = BestAfterCall(child, BEST_SO_FAR)
    /\ UNCHANGED <<blueprints, blueprint_index, max_geode_nums, quality_levels,
                   geode_nums_part2, printed, pc>>
    /\ UNCHANGED <<day16, file, puzzles>>

\* lines 188, 194, 206, 240: the top frame returns to its caller, a frame of
\* _get_max_geodes or the loop over first_target
GetMaxGeodesReturn ==
    /\ Searching19
    /\ stack # <<>>
    /\ Top.pending = <<>>
    /\ IF Len(stack) > 1
       THEN /\ stack' = Append(SubSeq(stack, 1, Len(stack) - 2),
                               [stack[Len(stack) - 1] EXCEPT
                                   !.results = Append(@, GeodeResult(Top))])
            /\ UNCHANGED max_geode_nums
       ELSE /\ stack' = <<>>
            /\ max_geode_nums' = Append(max_geode_nums, GeodeResult(Top))
    /\ UNCHANGED <<blueprints, blueprint_index, BEST_SO_FAR, quality_levels,
                   geode_nums_part2, printed, pc>>
    /\ UNCHANGED <<day16, file, puzzles>>

\* lines 265 and 306-307: _get_max_geodes_part1 returns, the script records
\* the quality level
Part1Return ==
    /\ pc = "d19_part1_search"
    /\ stack = <<>>
    /\ Len(max_geode_nums) = Len(Material)
    /\ quality_levels' = Append(quality_levels,
                                CurrentBlueprint.num * MaxOfList(max_geode_nums))
    /\ blueprint_index' = blueprint_index + 1
    /\ pc' = "d19_part1"
    /\ UNCHANGED <<blueprints, BEST_SO_FAR, max_geode_nums, geode_nums_part2,
                   stack, printed>>
    /\ UNCHANGED <<day16, file, puzzles>>

\* line 309: the part-1 loop is over, the sum is printed
Part1Print ==
    /\ pc = "d19_part1"
    /\ blueprint_index > Len(blueprints)
    /\ printed' = Append(printed, SumOfList(quality_levels))
    /\ blueprint_index' = 1
    /\ pc' = "d19_part2"
    /\ UNCHANGED <<blueprints, BEST_SO_FAR, max_geode_nums, quality_levels,
                   geode_nums_part2, stack>>
    /\ UNCHANGED <<day16, file, puzzles>>

\* lines 290 and 313: _get_max_geodes_part2 returns, the script records the
\* geode number
Part2Return ==
    /\ pc = "d19_part2_search"
    /\ stack = <<>>
    /\ Len(max_geode_nums) = Len(Material)
    /\ geode_nums_part2' = Append(geode_nums_part2, MaxOfList(max_geode_nums))
    /\ blueprint_index' = blueprint_index + 1
    /\ pc' = "d19_part2"
    /\ UNCHANGED <<blueprints, BEST_SO_FAR, max_geode_nums, quality_levels,
                   stack, printed>>
    /\ UNCHANGED <<day16, file, puzzles>>

\* lines 315-318: the part-2 loop is over, the product is printed
Part2Print ==
    /\ pc = "d19_part2"
    /\ blueprint_index > Min(Part2Blueprints, Len(blueprints))
    /\ printed' = Append(printed, ProductOfList(geode_nums_part2))
    /\ pc' = "d19_done"
    /\ UNCHANGED <<blueprints, blueprint_index, BEST_SO_FAR, max_geode_nums,
                   quality_levels, geode_nums_part2, stack>>
    /\ UNCHANGED <<day16, file, puzzles>>

Next19 ==
    \/ GetMaxGeodesPart1
    \/ FirstTargetCall
    \/ GetMaxGeodesCall
    \/ GetMaxGeodesReturn
    \/ Part1Return
    \/ Part1Print
    \/ GetMaxGeodesPart2
    \/ Part2Return
    \/ Part2Print

Spec19 == Init19 /\ [][Next19]_vars

----------------------------------------------------------------------------
(* Day 19: what the claims speak about.                                    *)

\* the inventories after one minute of a continuation in which no robot is
\* built
Waited(state) ==
    [material_inventory |->
         UpdateMaterialInventory(state.material_inventory, state.robot_inventory),
     robot_inventory |-> state.robot_inventory]

\* the inventories after one minute of a continuation in which one robot is
\* built; the minute's yield comes from the robots held before
Built(blueprint, state, robot_type) ==
    [material_inventory |->
         UpdateMaterialInventory(
             [req_mat \in Materials |->
                 state.material_inventory[req_mat]
                 - blueprint.robot_costs[robot_type][req_mat]],
             state.robot_inventory),
     robot_inventory |-> [state.robot_inventory EXCEPT ![robot_type] = @ + 1]]

\* one minute of a continuation: nothing is built, or one robot the state
\* can afford is
OneMinute(blueprint, state) ==
    {Waited(state)}
    \cup
    {Built(blueprint, state, robot_type) :
        robot_type \in {r \in Materials :
                           IsRobotAffordable(blueprint, state.material_inventory, r)}}

\* the largest number of geodes a continuation of the state holds when time
\* runs out
RECURSIVE BestAchievable(_, _, _)
BestAchievable(blueprint, time_left, state) ==
    IF time_left <= 0 THEN state.material_inventory["GEODE"]
    ELSE MaxOfSet({BestAchievable(blueprint, time_left - 1, s) :
                      s \in OneMinute(blueprint, state)})

BestFromFrame(frame) ==
    BestAchievable(CurrentBlueprint, frame.time_left,
                   [material_inventory |-> frame.material_inventory,
                    robot_inventory |-> frame.robot_inventory])

BoundOfFrame(frame) ==
    GetGeodeNumUpperBound(frame.time_left, frame.material_inventory,
                          frame.robot_inventory)

\* the top frame is a call that has just been entered: it has made none of
\* its recursive calls.  Every call of the search is in this position once.
JustCalled ==
    /\ Searching19
    /\ stack # <<>>
    /\ Top.results = <<>>
    /\ Top.pending = Pending(Top.branch, Top.target_robot)

\* C10: for the state of every call the day-19 search makes, the upper
\* bound is at least the largest geode count any continuation from that
\* state ends with, and a call abandoned because its bound is
\* <= BEST_SO_FAR has no continuation ending with more than BEST_SO_FAR.
C10_BoundIsAdmissible ==
    JustCalled =>
        LET best == BestFromFrame(Top)
        IN /\ BoundOfFrame(Top) >= best
           /\ Top.branch = "pruned_bound" => best <= BEST_SO_FAR

\* a call is abandoned by the bound after some branch ended with a geode,
\* although its state still had time to collect at that threshold
C10_Witness ==
    /\ Searching19
    /\ stack # <<>>
    /\ Top.branch = "pruned_bound"
    /\ BEST_SO_FAR >= 1
    /\ Top.time_left >= 2
    /\ BestFromFrame(Top) = BEST_SO_FAR

----------------------------------------------------------------------------
(* Day 19: the value a top-level search returns.                           *)

\* the upper bound of the state the root calls start from (lines 253-259)
RootBound(minutes) == GetGeodeNumUpperBound(minutes, NoMaterials, FirstRobots)

\* every root call of the running top-level search has returned: the search
\* is about to return max(max_geode_nums) (lines 265, 290)
SearchReturning ==
    /\ Searching19
    /\ stack = <<>>
    /\ Len(max_geode_nums) = Len(Material)

\* C11: the value a top-level day-19 search returns, and every value a root
\* call returns to it, is at most the upper bound of the root state, which
\* is 0 + 1 + ... + (T - 1) for the time budget T.
C11_AtMostRootBound ==
    Searching19 =>
        /\ RootBound(Minutes) = (Minutes * (Minutes - 1)) \div 2
        /\ \A i \in 1..Len(max_geode_nums) : max_geode_nums[i] <= RootBound(Minutes)
        /\ SearchReturning => MaxOfList(max_geode_nums) <= RootBound(Minutes)

\* a top-level search returns a positive geode count
C11_Witness ==
    /\ SearchReturning
    /\ MaxOfList(max_geode_nums) >= 1

----------------------------------------------------------------------------
(* The parsers.  A line of a data file is the sequence of its segments,    *)
(* the literal parts of the line pattern alternating with the parts the    *)
(* pattern's groups take; a number is the sequence of its characters.      *)

\* the largest file of valves the parser is run on
FileValves == 3
\* the largest file of blueprints the parser is run on
FileBlueprints == 2

DigitChars == <<"0", "1", "2", "3", "4", "5", "6", "7", "8", "9">>

\* \d+
IsDigits(text) ==
    /\ text # <<>>
    /\ \A i \in 1..Len(text) : text[i] \in Range(DigitChars)

DigitValue(char) == (CHOOSE i \in 1..Len(DigitChars) : DigitChars[i] = char) - 1

\* int(...) of a text of digits
RECURSIVE IntOf(_)
IntOf(text) ==
    IF text = <<>> THEN 0
    ELSE 10 * IntOf(SubSeq(text, 1, Len(text) - 1)) + DigitValue(text[Len(text)])

\* the decimal text of a number, as the data files write it
RECURSIVE DecimalText(_)
DecimalText(n) ==
    IF n < 10 THEN <<DigitChars[n + 1]>>
    ELSE Append(DecimalText(n \div 10), DigitChars[(n % 10) + 1])

\* dict assignment d[key] = value
Assigned(d, key, value) ==
    [k \in DOMAIN d \cup {key} |-> IF k = key THEN value ELSE d[k]]

\* day 16, lines 21-24: tunnel[s]* lead[s]* to valve[s]*, with no or one s
TunnelPhrases ==
    {"; tunnel lead to valve ", "; tunnels lead to valve ",
     "; tunnel leads to valve ", "; tunnels leads to valve ",
     "; tunnel lead to valves ", "; tunnels lead to valves ",
     "; tunnel leads to valves ", "; tunnels leads to valves "}

\* names \S+ does not take
NamesWithBlank == {"", "A A"}

\* day 16, lines 21-24 and 32: re.match(line_pattern, line) is not None
MatchLine16(line) ==
    /\ Len(line) = 6
    /\ line[1] = "Valve "
    /\ line[2] \notin NamesWithBlank
    /\ line[3] = " has flow rate="
    /\ IsDigits(line[4])
    /\ line[5] \in TunnelPhrases

RECURSIVE ParseLoop16(_, _, _, _)
ParseLoop16_skipsBadLines(lines, i, flows, adj_valves) ==
    IF i > Len(lines)
    THEN [failed |-> FALSE, matched |-> i - 1,
          flow_rates |-> flows, adj_valves |-> adj_valves]
    ELSE IF ~MatchLine16(lines[i])
    THEN ParseLoop16(lines, i + 1, flows, adj_valves)
    ELSE ParseLoop16(lines, i + 1,
                     Assigned(flows, lines[i][2], IntOf(lines[i][4])),
                     Assigned(adj_valves, lines[i][2], Range(lines[i][6])))

\* day 16, lines 31-42: the loop over the lines from line i on; it ends at
\* the first line that does not match
ParseLoop16(lines, i, flows, adj_valves) ==
    IF i > Len(lines)
    THEN [failed |-> FALSE, matched |-> i - 1,
          flow_rates |-> flows, adj_valves |-> adj_valves]
    ELSE IF ~MatchLine16(lines[i])
    THEN [failed |-> TRUE, matched |-> i - 1,
          flow_rates |-> flows, adj_valves |-> adj_valves]
    ELSE ParseLoop16(lines, i + 1,
                     Assigned(flows, lines[i][2], IntOf(lines[i][4])),
                     Assigned(adj_valves, lines[i][2], Range(lines[i][6])))

\* the valves of a set in the order of their names
RECURSIVE InNameOrder(_, _)
InNameOrder(S, i) ==
    IF i > Len(ValveNames) THEN <<>>
    ELSE (IF ValveNames[i] \in S THEN <<ValveNames[i]>> ELSE <<>>)
         \o InNameOrder(S, i + 1)

\* the line of the data file that describes valve v
ValveLine(adj, flows, v) ==
    <<"Valve ", v, " has flow rate=", DecimalText(flows[v]),
      IF Cardinality(adj[v]) = 1 THEN "; tunnel leads to valve "
                                 ELSE "; tunnels lead to valves ",
      InNameOrder(adj[v], 1)>>

\* the data file of a graph, one line per valve in key order
ValveFile(adj, flows) ==
    [i \in 1..Len(KeyOrder(adj)) |-> ValveLine(adj, flows, KeyOrder(adj)[i])]

\* lines the pattern of day 16 does not match: an empty line, a misspelt
\* word, a name with a blank, a rate with a sign, a missing rate
BadLines16 ==
    {<<>>,
     <<"valve ", "DD", " has flow rate=", <<"1">>, "; tunnel leads to valve ", <<"AA">>>>,
     <<"Valve ", "A A", " has flow rate=", <<"1">>, "; tunnel leads to valve ", <<"AA">>>>,
     <<"Valve ", "DD", " has flow rate=", <<"-", "1">>, "; tunnel leads to valve ", <<"AA">>>>,
     <<"Valve ", "DD", " has flow rate=", <<>>, "; tunnel leads to valve ", <<"AA">>>>}

\* the lines with one more line put before line p (after the last line
\* when p is Len(lines) + 1)
Inserted(lines, p, line) ==
    SubSeq(lines, 1, p - 1) \o <<line>> \o SubSeq(lines, p, Len(lines))

\* the data files of the model: the file of a graph, as it is or with one
\* bad line put in
ValveFiles ==
    LET good == {ValveFile(LineAdj(FileValves, a), f) :
                    a \in 1..((FileValves + 1) \div 2), f \in LineFlows(FileValves)}
    IN good \cup {Inserted(g, p, b) :
                     g \in good, p \in 1..(FileValves + 1), b \in BadLines16}

\* day 16 at line 309: the file is read, nothing is parsed
FileRead16 ==
    /\ PuzzlesNotStarted
    /\ data_file_str \in ValveFiles
    /\ lines_parsed = 0
    /\ adj_dict = <<>>
    /\ flow_rates = <<>>
    /\ time_budget = MaxT
    /\ distances_dict = <<>>
    /\ all_valves = {}
    /\ stack = <<>>
    /\ printed = <<>>
    /\ pc = "read"
    /\ Day19NotStarted

\* line 309: flow_rates, adj_dict = _parse_data_file(DATA_FILE).  A failed
\* assertion (line 33) ends the script.
ParseDataFile16 ==
    /\ pc = "read"
    /\ LET parsed == ParseLoop16(data_file_str, 1, <<>>, <<>>) IN
         /\ lines_parsed' = parsed.matched
         /\ IF parsed.failed
            THEN /\ pc' = "assertion_failed"
                 /\ UNCHANGED <<flow_rates, adj_dict>>
            ELSE /\ pc' = "parsed"
                 /\ flow_rates' = parsed.flow_rates
                 /\ adj_dict' = parsed.adj_valves
    /\ UNCHANGED <<data_file_str, time_budget, distances_dict, all_valves,
                   stack, printed>>
    /\ UNCHANGED <<day19, puzzles>>

\* day 19, lines 48-56 and 62: re.match(line_pattern, line) is not None
MatchLine19(line) ==
    /\ Len(line) = 15
    /\ line[1] = "Blueprint "
    /\ IsDigits(line[2])
    /\ line[3] = ": Each ore robot costs "
    /\ IsDigits(line[4])
    /\ line[5] = " ore. Each clay robot costs "
    /\ IsDigits(line[6])
    /\ line[7] = " ore. Each obsidian robot costs "
    /\ IsDigits(line[8])
    /\ line[9] = " ore and "
    /\ IsDigits(line[10])
    /\ line[11] = " clay. Each geode robot costs "
    /\ IsDigits(line[12])
    /\ line[13] = " ore and "
    /\ IsDigits(line[14])
    /\ line[15] = " obsidian."

\* day 19, lines 64-103: the blueprint a matching line gives
ParsedBlueprint(line) ==
    Blueprint(IntOf(line[2]),
              RobotCosts(IntOf(line[4]), IntOf(line[6]), IntOf(line[8]),
                         IntOf(line[10]), IntOf(line[12]), IntOf(line[14])))

RECURSIVE ParseLoop19(_, _, _)
ParseLoop19_skipsBadLines(lines, i, parsed) ==
    IF i > Len(lines)
    THEN [failed |-> FALSE, matched |-> i - 1, blueprints |-> parsed]
    ELSE IF ~MatchLine19(lines[i])
    THEN ParseLoop19(lines, i + 1, parsed)
    ELSE ParseLoop19(lines, i + 1, Append(parsed, ParsedBlueprint(lines[i])))

\* day 19, lines 61-105: the loop over the lines from line i on; it ends at
\* the first line that does not match
ParseLoop19(lines, i, parsed) ==
    IF i > Len(lines)
    THEN [failed |-> FALSE, matched |-> i - 1, blueprints |-> parsed]
    ELSE IF ~MatchLine19(lines[i])
    THEN [failed |-> TRUE, matched |-> i - 1, blueprints |-> parsed]
    ELSE ParseLoop19(lines, i + 1, Append(parsed, ParsedBlueprint(lines[i])))

\* the line of the data file for blueprint num, every cost being cost
BlueprintLine(num, cost) ==
    <<"Blueprint ", DecimalText(num),
      ": Each ore robot costs ", DecimalText(cost),
      " ore. Each clay robot costs ", DecimalText(cost),
      " ore. Each obsidian robot costs ", DecimalText(cost),
      " ore and ", DecimalText(cost),
      " clay. Each geode robot costs ", DecimalText(cost),
      " ore and ", DecimalText(cost),
      " obsidian.">>

\* lines the pattern of day 19 does not match: an empty line, a misspelt
\* word, a cost with a sign
BadLines19 ==
    {<<>>,
     [BlueprintLine(9, 1) EXCEPT ![1] = "blueprint "],
     [BlueprintLine(9, 1) EXCEPT ![12] = <<"-", "1">>]}

\* the data files of the model: up to FileBlueprints lines, as they are or
\* with one bad line put in
BlueprintFiles ==
    LET good == UNION {{[i \in 1..n |-> BlueprintLine(i, costs[i])] :
                           costs \in [1..n -> CostValues]} :
                       n \in 1..FileBlueprints}
    IN good \cup UNION {{Inserted(g, p, b) : p \in 1..(Len(g) + 1), b \in BadLines19} :
                         g \in good}

\* day 19 at line 299: the file is read, nothing is parsed
FileRead19 ==
    /\ PuzzlesNotStarted
    /\ data_file_str \in BlueprintFiles
    /\ lines_parsed = 0
    /\ Day19NotStarted
    /\ stack = <<>>
    /\ printed = <<>>
    /\ pc = "d19_read"
    /\ Day16NotStarted

\* line 299: blueprints = _parse_data_file(DATA_FILE).  A failed assertion
\* (line 63) ends the script.
ParseDataFile19 ==
    /\ pc = "d19_read"
    /\ LET parsed == ParseLoop19(data_file_str, 1, <<>>) IN
         /\ lines_parsed' = parsed.matched
         /\ IF parsed.failed
            THEN /\ pc' = "assertion_failed"
                 /\ UNCHANGED <<blueprints, blueprint_index>>
            ELSE /\ pc' = "d19_part1"
                 /\ blueprints' = parsed.blueprints
                 /\ blueprint_index' = 1
    /\ UNCHANGED <<data_file_str, BEST_SO_FAR, max_geode_nums, quality_levels,
                   geode_nums_part2, stack, printed>>
    /\ UNCHANGED <<day16, puzzles>>

\* the two scripts, each started on a data file
InitFiles == FileRead16 \/ FileRead19

NextFiles ==
    \/ ParseDataFile16
    \/ Next
    \/ ParseDataFile19
    \/ Next19

SpecFiles == InitFiles /\ [][NextFiles]_vars

----------------------------------------------------------------------------
(* The parsers: what the claims speak about.                               *)

\* the script the data file was handed to
RunsDay16 == data_file_str \in ValveFiles

RunsDay19 == data_file_str \in BlueprintFiles

Malformed16 ==
    \E i \in 1..Len(data_file_str) : ~MatchLine16(data_file_str[i])

Malformed19 ==
    \E i \in 1..Len(data_file_str) : ~MatchLine19(data_file_str[i])

\* the number of the first line the pattern does not match
FirstBad16 ==
    CHOOSE i \in 1..Len(data_file_str) :
        /\ ~MatchLine16(data_file_str[i])
        /\ \A j \in 1..(i - 1) : MatchLine16(data_file_str[j])

FirstBad19 ==
    CHOOSE i \in 1..Len(data_file_str) :
        /\ ~MatchLine19(data_file_str[i])
        /\ \A j \in 1..(i - 1) : MatchLine19(data_file_str[j])

\* C12: when a line of the data file does not match the line pattern, the
\* parser stops at the first such line with a failed assertion, the script
\* never holds a parsed table, computes no distance table, runs no search
\* and prints nothing.
C12_MalformedInputAborts ==
    /\ (RunsDay16 /\ Malformed16 /\ pc # "read") =>
           /\ pc = "assertion_failed"
           /\ lines_parsed = FirstBad16 - 1
           /\ flow_rates = <<>>
           /\ adj_dict = <<>>
           /\ distances_dict = <<>>
           /\ all_valves = {}
           /\ stack = <<>>
           /\ printed = <<>>
    /\ (RunsDay19 /\ Malformed19 /\ pc # "d19_read") =>
           /\ pc = "assertion_failed"
           /\ lines_parsed = FirstBad19 - 1
           /\ Day19NotStarted
           /\ stack = <<>>
           /\ printed = <<>>

\* the parser of day 16 has failed at a line that has matching lines before
\* it and after it
C12_Witness ==
    /\ RunsDay16
    /\ pc = "assertion_failed"
    /\ lines_parsed >= 1
    /\ lines_parsed + 1 < Len(data_file_str)
    /\ ~MatchLine16(data_file_str[lines_parsed + 1])
    /\ MatchLine16(data_file_str[lines_parsed + 2])

----------------------------------------------------------------------------
(* Day 19: the search as a function of the order of exploration.           *)

\* the orders the target robot types can be explored in
Orders == {order \in [1..Len(Material) -> Materials] : Range(order) = Materials}

\* _get_max_geodes with its two pruning rules removed: the value of a call
RECURSIVE Unpruned(_, _, _, _, _)
Unpruned(blueprint, time_left, material_inventory, robot_inventory, target_robot) ==
    IF time_left <= 0 THEN material_inventory["GEODE"]
    ELSE IF IsRobotAffordable(blueprint, material_inventory, target_robot)
    THEN LET bought == Built(blueprint,
                             [material_inventory |-> material_inventory,
                              robot_inventory |-> robot_inventory],
                             target_robot)
         IN MaxOfSet({Unpruned(blueprint, time_left - 1, bought.material_inventory,
                               bought.robot_inventory, new_target) :
                         new_target \in Materials})
    ELSE Unpruned(blueprint, time_left - 1,
                  UpdateMaterialInventory(material_inventory, robot_inventory),
                  robot_inventory, target_robot)

\* the top-level search with the two pruning rules removed
UnprunedSearch(blueprint, minutes) ==
    MaxOfSet({Unpruned(blueprint, minutes, NoMaterials, FirstRobots, first_target) :
                 first_target \in Materials})

\* _get_max_geodes exploring the targets in the given order: the value the
\* call of the frame returns and the value it leaves in BEST_SO_FAR when
\* entered with the value best.  PrunedLoop is the loop of the call from
\* its i-th target on, so_far the largest value returned up to there (-1
\* for none).
RECURSIVE PrunedCall(_, _, _, _)
RECURSIVE PrunedLoop(_, _, _, _, _, _, _)
PrunedCall(blueprint, frame, best, order) ==
    IF frame.branch = "buy"
    THEN PrunedLoop(blueprint, frame, order, 1, -1, best, order)
    ELSE IF frame.branch = "wait"
    THEN PrunedLoop(blueprint, frame, <<frame.target_robot>>, 1, -1, best, order)
    ELSE [value |-> frame.material_inventory["GEODE"],
          best |-> BestAfterCall(frame, best)]

PrunedLoop(blueprint, frame, targets, i, so_far, best, order) ==
    IF i > Len(targets) THEN [value |-> so_far, best |-> best]
    ELSE LET returned == PrunedCall(blueprint,
                                    GeodeChild(blueprint, frame, targets[i], best),
                                    best, order)
         IN IF returned.best < -1 THEN returned
            ELSE PrunedLoop(blueprint, frame, targets, i + 1,
                            Max(so_far, returned.value), returned.best, order)

\* the loop over first_target of a top-level search, in the given order
RECURSIVE PrunedRoots(_, _, _, _, _, _)
PrunedRoots(blueprint, minutes, order, i, so_far, best) ==
    IF i > Len(order) THEN so_far
    ELSE LET returned == PrunedCall(blueprint,
                                    GeodeFrame(blueprint, minutes, NoMaterials,
                                               FirstRobots, order[i], best),
                                    best, order)
         IN IF returned.best < -1 THEN so_far
            ELSE PrunedRoots(blueprint, minutes, order, i + 1,
                             Max(so_far, returned.value), returned.best)

\* the value of the top-level search exploring in the given order
PrunedSearch(blueprint, minutes, order) ==
    PrunedRoots(blueprint, minutes, order, 1, -1, -1)

\* C13: the top-level search returns what the same depth-first search
\* without the two pruning rules returns, in the order of the source
\* (where the value is the one the modelled run returns) and in every
\* other order of the target robot types.
C13_PruningKeepsTheValue ==
    SearchReturning =>
        /\ MaxOfList(max_geode_nums) = UnprunedSearch(CurrentBlueprint, Minutes)
        /\ MaxOfList(max_geode_nums) = PrunedSearch(CurrentBlueprint, Minutes, Material)
        /\ \A order \in Orders :
               PrunedSearch(CurrentBlueprint, Minutes, order)
               = UnprunedSearch(CurrentBlueprint, Minutes)

\* the value _get_max_geodes returns for the call of the frame when the two
\* pruning rules are removed
UnprunedFrame(frame) ==
    Unpruned(CurrentBlueprint, frame.time_left, frame.material_inventory,
             frame.robot_inventory, frame.target_robot)

\* pruning loses something: a call abandoned by the bound returns less than
\* the same call returns without pruning
C13_Witness ==
    /\ JustCalled
    /\ Top.branch = "pruned_bound"
    /\ Top.material_inventory["GEODE"] < UnprunedFrame(Top)

----------------------------------------------------------------------------
(* Day 19: the threshold BEST_SO_FAR.                                      *)

\* a step inside one top-level search
SearchStep == Searching19 /\ pc' = pc

\* the step enters a call of _get_max_geodes
CallEntered == Len(stack') = Len(stack) + 1

\* a top-level search has reset BEST_SO_FAR and made no root call yet
SearchBegun == Searching19 /\ stack = <<>> /\ max_geode_nums = <<>>

\* C14: inside one top-level search BEST_SO_FAR starts at -1, never
\* decreases and changes only in a step that enters a call with
\* time_left <= 0, which sets it to the maximum of its old value and the
\* geode count of that call; so whenever it changes, its new value is the
\* final geode count of the branch that has just terminated.
C14_BestSoFarOnlyGrows ==
    /\ [](SearchBegun => BEST_SO_FAR = -1)
    /\ [][SearchStep =>
             /\ BEST_SO_FAR' >= BEST_SO_FAR
             /\ (CallEntered /\ Top'.time_left <= 0) =>
                    BEST_SO_FAR' = Max(BEST_SO_FAR, Top'.material_inventory["GEODE"])
             /\ BEST_SO_FAR' # BEST_SO_FAR =>
                    /\ CallEntered
                    /\ Top'.time_left <= 0
                    /\ BEST_SO_FAR' = Top'.material_inventory["GEODE"]]_vars

\* a branch has just terminated and has raised BEST_SO_FAR to its positive
\* geode count
C14_Witness ==
    /\ JustCalled
    /\ Top.branch = "out_of_time"
    /\ BEST_SO_FAR >= 1
    /\ Top.material_inventory["GEODE"] = BEST_SO_FAR

----------------------------------------------------------------------------
(* Day 19: the searches of one run of the script.                          *)

\* the value a top-level search of the blueprint returns when it is the
\* only search made
SearchedAlone(blueprint, minutes) == PrunedSearch(blueprint, minutes, Material)

\* C15: every top-level search makes its first root call with BEST_SO_FAR
\* at -1, and the value it returns, for every blueprint of the file in part
\* 1 and in part 2, is the value the search of that blueprint returns when
\* it is the only search made.
C15_SearchesAreIndependent ==
    /\ SearchBegun => BEST_SO_FAR = -1
    /\ SearchReturning =>
           MaxOfList(max_geode_nums) = SearchedAlone(CurrentBlueprint, Minutes)
    /\ \A i \in 1..Len(quality_levels) :
           quality_levels[i]
           = blueprints[i].num * SearchedAlone(blueprints[i], Part1Minutes)
    /\ \A i \in 1..Len(geode_nums_part2) :
           geode_nums_part2[i] = SearchedAlone(blueprints[i], Part2Minutes)

\* the part-2 search of the second blueprint returns a positive count after
\* the search of the first blueprint has left a positive threshold
C15_Witness ==
    /\ SearchReturning
    /\ pc = "d19_part2_search"
    /\ blueprint_index = 2
    /\ geode_nums_part2[1] >= 1
    /\ MaxOfList(max_geode_nums) >= 1

----------------------------------------------------------------------------
(* Day 16: the timers of the two-actor search.                             *)

Searching2 == pc = "search2"

\* the step runs the body of the top call up to its loop (lines 204-238)
BodyEntered ==
    /\ Searching2
    /\ Top.branch = "entry"
    /\ Len(stack') = Len(stack)
    /\ Top'.branch # "entry"

\* C16: in the two-actor search a call entered with both timers positive
\* reduces both timers and the overall time left by the smaller timer and
\* any other call leaves them as they are; the timers of every call are
\* never negative, a call that reaches the choice of the moving actor has a
\* timer at 0, and no call fails the assertion of that choice.
C16_TimersReachZero ==
    /\ [][BodyEntered =>
             LET fast_forward_time ==
                     IF Top.time_left_p1 > 0 /\ Top.time_left_p2 > 0
                     THEN Min(Top.time_left_p1, Top.time_left_p2) ELSE 0
             IN /\ Top'.time_left_p1 = Top.time_left_p1 - fast_forward_time
                /\ Top'.time_left_p2 = Top.time_left_p2 - fast_forward_time
                /\ Top'.overall_time_left = Top.overall_time_left - fast_forward_time]_vars
    /\ [](Searching2 =>
             \A i \in 1..Len(stack) :
                 /\ stack[i].time_left_p1 >= 0
                 /\ stack[i].time_left_p2 >= 0
                 /\ stack[i].branch # "assert"
                 /\ stack[i].branch = "loop" =>
                        /\ stack[i].time_left_p1 = 0 \/ stack[i].time_left_p2 = 0
                        /\ stack[i].moving_actor \in {1, 2})
    /\ [][Searching2 => pc' # "assertion_failed"]_vars

\* after a fast forward the second actor chooses its next valve while the
\* first is still under way
C16_Witness ==
    /\ Searching2
    /\ Top.branch = "loop"
    /\ Top.moving_actor = 2
    /\ Top.time_left_p1 > 0
    /\ Top.overall_time_left < time_budget
    /\ Top.overall_time_left > 0

----------------------------------------------------------------------------
(* Day 16: the valves a search transitions to (lines 129-146, 240-274).    *)

Searching1 == pc = "search1"

\* the valve the call of frame child was made for by the call of frame parent
JumpedTo(parent, child) ==
    IF parent.moving_actor = 1 THEN child.curr_valve_p1 ELSE child.curr_valve_p2

\* the valve the moving actor of a two-actor call stands at (lines 226-231)
CurrValve(frame) ==
    IF frame.moving_actor = 1 THEN frame.curr_valve_p1 ELSE frame.curr_valve_p2

\* C17: every call the searches make is for a not-yet-opened valve that can be
\* reached and opened within the caller's remaining time: distance + 1 <=
\* time left (the single-actor caller's time_left, the two-actor caller's
\* overall_time_left); no other valve enters valves_activated or becomes an
\* actor's position.
C17_OnlyOpenableValves ==
    /\ Searching1 =>
         \A i \in 1..(Len(stack) - 1) :
             /\ stack[i + 1].last_valve \notin stack[i].valves_activated
             /\ distances_dict[<<stack[i].last_valve, stack[i + 1].last_valve>>] + 1
                    <= stack[i].time_left
    /\ Searching2 =>
         \A i \in 1..(Len(stack) - 1) :
             /\ JumpedTo(stack[i], stack[i + 1]) \notin stack[i].valves_activated
             /\ distances_dict[<<CurrValve(stack[i]), JumpedTo(stack[i], stack[i + 1])>>] + 1
                    <= stack[i].overall_time_left

----------------------------------------------------------------------------
(* Day 16: termination of the searches (lines 110-151, 213-279).           *)

\* a search that has been started runs its steps one after the other: the
\* interpreter executes the next call or return of the helper
SearchStep1 == P1Call \/ P1Return

SearchStep2 == P2Enter \/ P2Call \/ P2Return

\* the inputs of the runs checked for termination: the lines of valves with
\* no time at all and with the two largest budgets, and the directed graphs
InitFair ==
    \/ \E a \in 1..((LineValves + 1) \div 2), f \in LineFlows(LineValves), t \in {0, MaxT - 1, MaxT} :
           Parsed(LineAdj(LineValves, a), f, t)
    \/ InitDigraph

FairSpec == InitFair /\ [][Next]_vars /\ WF_vars(SearchStep1) /\ WF_vars(SearchStep2)

SearchingValves == Searching1 \/ Searching2

Terminal(frame) == frame.branch \in {"out_of_time", "all_open"}

\* lines 113, 118 (and 214, 219): the tests that end a branch, on the frame
\* of a call whose body has reached them
Exhausted(frame) ==
    \/ /\ Searching1
       /\ frame.time_left <= 0 \/ frame.valves_activated = all_valves
    \/ /\ Searching2
       /\ frame.branch # "entry"
       /\ frame.overall_time_left <= 0 \/ frame.valves_activated = all_valves

\* the value handed to the caller by the call that returns in this step
Returned ==
    IF stack' = <<>> THEN printed'[Len(printed')]
    ELSE LET caller == stack'[Len(stack')]
         IN caller.total_pressures[Len(caller.total_pressures)]

\* C18: every branch of both searches terminates.  Each call made by the loop
\* opens exactly one valve that was not open, so the depth of the recursion is
\* the number of opened valves and never exceeds the number of valves of
\* interest (at most that number - 1 transitions below the root); a call that
\* finds the time exhausted or every valve of interest open makes no call and
\* returns exactly its total_so_far; and each search, once started, returns:
\* its stack empties, which ends the single-actor search at the start of
\* part 2 and the two-actor search at the end of the script.
C18_BranchesTerminate ==
    /\ [][SearchingValves /\ Len(stack') = Len(stack) + 1 =>
            \E valve \in all_valves \ Top.valves_activated :
                Top'.valves_activated = Top.valves_activated \cup {valve}]_vars
    /\ [][SearchingValves /\ Len(stack') = Len(stack) - 1 /\ Terminal(Top) =>
            Returned = Top.total_so_far]_vars
    /\ [](SearchingValves =>
            /\ Len(stack) <= Cardinality(all_valves)
            /\ \A i \in 1..Len(stack) :
                   /\ Cardinality(stack[i].valves_activated) = i
                   /\ Exhausted(stack[i]) =>
                          /\ Terminal(stack[i])
                          /\ stack[i].to_consider = {}
                          /\ i = Len(stack))
    /\ [][SearchingValves =>
            pc' = IF stack' # <<>> THEN pc
                  ELSE IF Searching1 THEN "part2" ELSE "done"]_vars
    /\ SearchingValves ~> (stack = <<>>)

C18_Witness ==
    /\ Searching2
    /\ Len(stack) = Cardinality(all_valves)
    /\ Len(stack) >= 4
    /\ Top.branch = "all_open"
    /\ Top.total_so_far > 0

----------------------------------------------------------------------------
(* Day 19: _get_max_geodes_part1 and _get_max_geodes with their dicts as   *)
(* objects (lines 150-265).  A frame holds the dicts it creates: the       *)
(* frame of _get_max_geodes_part1 its material_inventory and               *)
(* robot_inventory (lines 254-256), a frame of _get_max_geodes its         *)
(* new_mat_inv and new_robot_inv (lines 213-217, 232-233).  A call receives *)
(* its two inventories by reference: they are the two dicts held by the    *)
(* frame below it (lines 224, 237, 261).                                   *)

\* a local name that is not bound yet
Unbound == <<>>

\* line 220 (and 235): the frame holding the dict that is the first argument
\* of _update_material_inventory, new_mat_inv of the running call
UpdateTarget_argument(callee) == callee - 1

UpdateTarget(callee) == callee

\* lines 246-252: the frame of _get_max_geodes_part1 at the head of its loop
Part1Frame ==
    [time_left |-> Part1Minutes,
     target_robot |-> "none",
     current_geode_num |-> 0,
     branch |-> "part1",
     new_mat_inv |-> Unbound,
     new_robot_inv |-> Unbound,
     pending |-> Material,
     results |-> <<>>]

\* lines 254-256: the loop body binds two new dicts before each root call
Rebound(frame) ==
    IF frame.branch = "part1"
    THEN [frame EXCEPT !.new_mat_inv = NoMaterials, !.new_robot_inv = FirstRobots]
    ELSE frame

\* lines 224, 237, 261: the time handed to the call
TimeHanded(caller) ==
    IF caller.branch = "part1" THEN caller.time_left ELSE caller.time_left - 1

\* lines 183-238: the stack after the caller (the top frame of frames) has
\* called _get_max_geodes for target and the body of the call has run up to
\* its first recursive call or to its return
Called(frames, blueprint, target, best) ==
    LET caller == frames[Len(frames)]
        callee == Len(frames) + 1
        time_left == TimeHanded(caller)
        material_inventory == caller.new_mat_inv
        robot_inventory == caller.new_robot_inv
        branch == Outcome(blueprint, time_left, material_inventory,
                          robot_inventory, target, best)
        entered == Append(frames,
                          [time_left |-> time_left,
                           target_robot |-> target,
                           current_geode_num |-> material_inventory["GEODE"],
                           branch |-> branch,
                           new_mat_inv |-> Unbound,
                           new_robot_inv |-> Unbound,
                           pending |-> Pending(branch, target),
                           results |-> <<>>])
        created ==
            IF branch = "buy"
            THEN [entered EXCEPT
                     ![callee].new_mat_inv =
                         [req_mat \in Materials |->
                             material_inventory[req_mat]
                             - blueprint.robot_costs[target][req_mat]],
                     ![callee].new_robot_inv =
                         [robot_inventory EXCEPT ![target] = @ + 1]]
            ELSE [entered EXCEPT
                     ![callee].new_mat_inv = material_inventory,
                     ![callee].new_robot_inv = robot_inventory]
    IN IF branch \in {"buy", "wait"}
       THEN [created EXCEPT
                ![UpdateTarget(callee)].new_mat_inv =
                    UpdateMaterialInventory(@, robot_inventory)]
       ELSE entered

\* lines 188, 194, 206, 240: the value the frame returns
ObjectResult(frame) ==
    IF frame.branch \in {"buy", "wait"}
    THEN MaxOfList(frame.results)
    ELSE frame.current_geode_num

SearchingObjects == pc = "d19_part1_objects"

\* lines 304-307 and 248-251: the part-1 loop takes its next blueprint and
\* _get_max_geodes_part1 runs up to its loop, resetting BEST_SO_FAR
ObjectsPart1 ==
    /\ pc = "d19_part1"
    /\ blueprint_index <= Len(blueprints)
    /\ BEST_SO_FAR' = -1
    /\ max_geode_nums' = <<>>
    /\ stack' = <<Part1Frame>>
    /\ pc' = "d19_part1_objects"
    /\ UNCHANGED <<blueprints, blueprint_index, quality_levels, geode_nums_part2,
                   printed>>
    /\ UNCHANGED <<day16, file, puzzles>>

\* lines 222-238, 253-263: the top frame makes its next call
ObjectsCall ==
    /\ SearchingObjects
    /\ Top.pending # <<>>
    /\ LET caller == Rebound([Top EXCEPT !.pending = Tail(@)])
           called == Called(Append(Pop, caller), CurrentBlueprint,
                            Head(Top.pending), BEST_SO_FAR)
       IN /\ stack' = called
          /\ BEST_SO_FAR' = IF called[Len(called)].branch = "out_of_time"
                            THEN Max(BEST_SO_FAR, called[Len(called)].current_geode_num)
                            ELSE BEST_SO_FAR
    /\ UNCHANGED <<blueprints, blueprint_index, max_geode_nums, quality_levels,
                   geode_nums_part2, printed, pc>>
    /\ UNCHANGED <<day16, file, puzzles>>

\* lines 188, 194, 206, 240: the top frame returns; line 258 (and 222): the
\* caller takes the value
ObjectsReturn ==
    /\ SearchingObjects
    /\ Len(stack) > 1
    /\ Top.pending = <<>>
    /\ stack' = Append(SubSeq(stack, 1, Len(stack) - 2),
                       [stack[Len(stack) - 1] EXCEPT
                           !.results = Append(@, ObjectResult(Top))])
    /\ max_geode_nums' = stack'[1].results
    /\ UNCHANGED <<blueprints, blueprint_index, BEST_SO_FAR, quality_levels,
                   geode_nums_part2, printed, pc>>
    /\ UNCHANGED <<day16, file, puzzles>>

\* lines 265 and 306-307: _get_max_geodes_part1 returns, the script records
\* the quality level
ObjectsPart1Return ==
    /\ SearchingObjects
    /\ Len(stack) = 1
    /\ Top.pending = <<>>
    /\ quality_levels' = Append(quality_levels,
                                CurrentBlueprint.num * MaxOfList(max_geode_nums))
    /\ blueprint_index' = blueprint_index + 1
    /\ stack' = <<>>
    /\ pc' = "d19_part1"
    /\ UNCHANGED <<blueprints, BEST_SO_FAR, max_geode_nums, geode_nums_part2,
                   printed>>
    /\ UNCHANGED <<day16, file, puzzles>>

NextObjects ==
    \/ Next
    \/ ObjectsPart1
    \/ ObjectsCall
    \/ ObjectsReturn
    \/ ObjectsPart1Return

InitObjects == Init \/ Init19

SpecObjects == InitObjects /\ [][NextObjects]_vars


\* the frame as it stands when the step hands its dicts to a call: the frame
\* that makes the call of this step has bound its dicts (lines 254-256), any
\* other frame is as it was
AsHanded(i) ==
    IF i = Len(stack) /\ Len(stack') = Len(stack) + 1
    THEN Rebound(stack[i])
    ELSE stack[i]

\* the frames that are on the stack before and after the step: the callers
\* of whatever ran in the step
Callers == 1..Min(Len(stack), Len(stack'))

\* C19: a step of a search leaves the state of every caller as it was.  In
\* day 16 the valves_activated of every frame that stays on the stack is
\* unchanged by a call and by a return, and flow_rates and distances_dict
\* are unchanged; in day 19 the two dicts a frame has handed to its calls
\* hold after every call and every return what they held when they were
\* handed over, and the blueprints are unchanged.  (A caller's state is then
\* the same after a child call returns as before it was made, whatever ran
\* in between.)
C19_CallersKeepTheirState ==
    /\ [][SearchingValves =>
            /\ flow_rates' = flow_rates
            /\ distances_dict' = distances_dict
            /\ \A i \in Callers :
                   stack'[i].valves_activated = stack[i].valves_activated]_vars
    /\ [][SearchingObjects =>
            /\ blueprints' = blueprints
            /\ \A i \in Callers :
                   /\ stack'[i].new_mat_inv = AsHanded(i).new_mat_inv
                   /\ stack'[i].new_robot_inv = AsHanded(i).new_robot_inv]_vars

\* a call that bought a robot has had a child return and its next child has
\* built dicts of its own, which differ from the ones it was handed
C19_Witness ==
    /\ SearchingObjects
    /\ Len(stack) >= 3
    /\ stack[Len(stack) - 1].branch = "buy"
    /\ stack[Len(stack) - 1].results # <<>>
    /\ Top.branch \in {"buy", "wait"}
    /\ Top.new_mat_inv # stack[Len(stack) - 1].new_mat_inv
    /\ Top.new_robot_inv # stack[Len(stack) - 1].new_robot_inv

----------------------------------------------------------------------------
(* Day 19: the upper bound along the search (lines 129-145, 208-240).      *)

\* C20: along every transition of the day-19 search, the call that buys the
\* target robot or waits and the call it makes for the state one minute
\* later, _get_geode_num_upper_bound of the child's state is <= that of the
\* parent's state.
C20_BoundNeverGrows ==
    Searching19 =>
        \A i \in 1..(Len(stack) - 1) :
            /\ stack[i].branch \in {"buy", "wait"}
            /\ stack[i + 1].time_left = stack[i].time_left - 1
            /\ BoundOfFrame(stack[i + 1]) <= BoundOfFrame(stack[i])

\* a call buys a geode robot with more than a minute left: the bound of its
\* child equals its own; the call was itself reached by a wait that lowered
\* the bound
C20_Witness ==
    /\ Searching19
    /\ Len(stack) >= 3
    /\ stack[Len(stack) - 1].branch = "buy"
    /\ stack[Len(stack) - 1].target_robot = "GEODE"
    /\ BoundOfFrame(Top) = BoundOfFrame(stack[Len(stack) - 1])
    /\ BoundOfFrame(Top) >= 1
    /\ \E i \in 1..(Len(stack) - 2) :
           /\ stack[i].branch = "wait"
           /\ BoundOfFrame(stack[i + 1]) < BoundOfFrame(stack[i])

----------------------------------------------------------------------------
(* Day 16: the valves of interest (lines 153-172, 281-303).                *)

\* the top frame is at the head of its loop: it has made no call yet
AtLoopHead ==
    /\ Top.branch = "loop"
    /\ Top.total_pressures = <<>>

\* C21: in both searches 'AA' is opened from the root call on and the root
\* starts with total 0; the valves of interest are 'AA' and the valves with
\* a positive flow rate; a call reaching its loop iterates every positive
\* valve not yet opened; every call the loop makes is for a valve other than
\* 'AA' with a positive flow rate, so neither 'AA' nor a valve of flow rate
\* 0 is ever a target, and the flow rate of 'AA' is never paid: when no
\* other valve has a positive flow rate every answer is 0.
C21_StartValveAndZeroValves ==
    SearchingValves =>
        /\ all_valves = PositiveValves \cup {"AA"}
        /\ stack[1].total_so_far = 0
        /\ \A i \in 1..Len(stack) :
               /\ "AA" \in stack[i].valves_activated
               /\ stack[i].valves_activated \subseteq all_valves
               /\ stack[i].to_consider \subseteq PositiveValves \ {"AA"}
        /\ AtLoopHead => Top.to_consider = PositiveValves \ Top.valves_activated
        /\ \A i \in 1..(Len(stack) - 1) :
               /\ stack[i + 1].valves_activated \ stack[i].valves_activated
                      \subseteq PositiveValves \ {"AA"}
               /\ stack[i + 1].total_so_far - stack[i].total_so_far
                      \in {k * flow_rates[v] :
                              k \in 0..time_budget,
                              v \in stack[i + 1].valves_activated
                                        \ stack[i].valves_activated}
        /\ PositiveValves \subseteq {"AA"} =>
               /\ \A i \in 1..Len(stack) : stack[i].total_so_far = 0
               /\ \A i \in 1..Len(printed) : printed[i] = 0

\* the start valve has a positive flow rate and so have others; a call of
\* the two-actor search stands at the head of its loop with a valve opened
\* and paid for
C21_Witness ==
    /\ Searching2
    /\ flow_rates["AA"] > 0
    /\ Len(stack) >= 2
    /\ AtLoopHead
    /\ Top.total_so_far > 0
    /\ Top.to_consider # {}
    /\ Valves \ all_valves # {}

----------------------------------------------------------------------------
(* Day 16: the two answers of a run (lines 313-318).                       *)

\* C22: for every graph, flow-rate table and budget of the model, the answer
\* of the two-actor search is >= the answer of the single-actor search run
\* before it on the same tables with the same budget.
C22_SecondActorNeverLowers ==
    Part2Returned => printed[2] >= printed[1]

\* the second actor helps: both searches have returned, the single actor
\* collected something and the two actors collected more
C22_Witness ==
    /\ Part2Returned
    /\ printed[1] > 0
    /\ printed[2] > printed[1]
    /\ time_budget < MaxT

----------------------------------------------------------------------------
(* Day 14 (src/src/day_14.py): falling sand.  The script drops particles   *)
(* from the source until one is lost to the void (part 1) or comes to rest *)
(* on the source (part 2).                                                 *)

\* utils.Point
Point(x, y) == [x |-> x, y |-> y]

\* line 159
source == Point(500, 0)

\* largest number of points of a rock region of the model
MaxRocks == 3

\* the points the rock regions of the model are made of: the source, its
\* two neighbours and the two rows below them
RockPoints == {Point(x, y) : x \in 499..501, y \in 0..2}

\* lines 33-62: the regions _get_rock_region returns for the rock paths of
\* the model (a path of two equal points is one point of rock)
RockRegions ==
    {region \in SUBSET RockPoints : Cardinality(region) \in 1..MaxRocks}

\* max(point.y for point in occupied_points), lines 118 and 180
MaxY(points) == MaxOfSet({point.y : point \in points})

\* lines 64-91; the optional floor is the set of its values: {} for None
DoSingleSandStep(start_point, occupied, optional_floor) ==
    LET curr_x == start_point.x
        curr_y == start_point.y
    IN IF optional_floor # {} /\ \A fl \in optional_floor : curr_y >= fl - 1
       THEN Point(curr_x, curr_y)
       ELSE IF Point(curr_x, curr_y + 1) \notin occupied
       THEN Point(curr_x, curr_y + 1)
       ELSE IF Point(curr_x - 1, curr_y + 1) \notin occupied
       THEN Point(curr_x - 1, curr_y + 1)
       ELSE IF Point(curr_x + 1, curr_y + 1) \notin occupied
       THEN Point(curr_x + 1, curr_y + 1)
       ELSE Point(curr_x, curr_y)

\* lines 154-162: the script up to the loop of part 1
Init14 ==
    /\ rock_region \in RockRegions
    /\ occupied_points = rock_region
    /\ floor = 0
    /\ finished = FALSE
    /\ num_sand = 0
    /\ curr_point = <<>>
    /\ printed = <<>>
    /\ pc = "d14_part1"
    /\ OnlyDay14

\* lines 163-164 and 102-104: the loop of part 1 calls
\* _simulate_sand_particle_part_1(source, occupied_points)
SandPart1Call ==
    /\ pc = "d14_part1"
    /\ ~finished
    /\ curr_point' = source
    /\ pc' = "d14_sim1"
    /\ UNCHANGED <<rock_region, occupied_points, floor, finished, num_sand, printed>>
    /\ UNCHANGED NotDay14

\* lines 106-127: one iteration of the loop of
\* _simulate_sand_particle_part_1; when the loop ends the function returns
\* and the script takes the result (lines 166-170).  A failed assertion
\* (line 107) ends the script.
SimulateSandParticlePart1 ==
    /\ pc = "d14_sim1"
    /\ IF curr_point \in occupied_points
       THEN /\ pc' = "assertion_failed"
            /\ UNCHANGED <<occupied_points, finished, num_sand, curr_point>>
       ELSE LET next_point == DoSingleSandStep(curr_point, occupied_points, {})
                resting == next_point = curr_point
                lost_to_void == next_point.y > MaxY(occupied_points)
            IN IF ~lost_to_void /\ ~resting
               THEN /\ curr_point' = next_point
                    /\ UNCHANGED <<occupied_points, finished, num_sand, pc>>
               ELSE /\ curr_point' = <<>>
                    /\ pc' = "d14_part1"
                    /\ IF resting
                       THEN /\ num_sand' = num_sand + 1
                            /\ occupied_points' = occupied_points \cup {curr_point}
                            /\ UNCHANGED finished
                       ELSE /\ finished' = TRUE
                            /\ UNCHANGED <<occupied_points, num_sand>>
    /\ UNCHANGED <<rock_region, floor, printed>>
    /\ UNCHANGED NotDay14

\* lines 172-180: the answer of part 1 and the set-up of part 2
SandPart1Print ==
    /\ pc = "d14_part1"
    /\ finished
    /\ printed' = Append(printed, num_sand)
    /\ occupied_points' = rock_region
    /\ finished' = FALSE
    /\ num_sand' = 0
    /\ floor' = MaxY(rock_region) + 2
    /\ pc' = "d14_part2"
    /\ UNCHANGED <<rock_region, curr_point>>
    /\ UNCHANGED NotDay14

\* lines 182-184 and 136-137: the loop of part 2 calls
\* _simulate_sand_particle_part_2(source, occupied_points, floor=floor)
SandPart2Call ==
    /\ pc = "d14_part2"
    /\ ~finished
    /\ curr_point' = source
    /\ pc' = "d14_sim2"
    /\ UNCHANGED <<rock_region, occupied_points, floor, finished, num_sand, printed>>
    /\ UNCHANGED NotDay14

\* lines 139-149: one iteration of the loop of
\* _simulate_sand_particle_part_2; when the loop ends the function returns
\* and the script takes the result (lines 186-193).  A failed assertion
\* (line 140) ends the script.
SimulateSandParticlePart2 ==
    /\ pc = "d14_sim2"
    /\ IF curr_point \in occupied_points
       THEN /\ pc' = "assertion_failed"
            /\ UNCHANGED <<occupied_points, finished, num_sand, curr_point>>
       ELSE LET next_point == DoSingleSandStep(curr_point, occupied_points, {floor})
                resting == next_point = curr_point
            IN IF ~resting
               THEN /\ curr_point' = next_point
                    /\ UNCHANGED <<occupied_points, finished, num_sand, pc>>
               ELSE /\ curr_point' = <<>>
                    /\ pc' = "d14_part2"
                    /\ num_sand' = num_sand + 1
                    /\ occupied_points' = occupied_points \cup {curr_point}
                    /\ finished' = (curr_point = source)
    /\ UNCHANGED <<rock_region, floor, printed>>
    /\ UNCHANGED NotDay14

\* line 195
SandPart2Print ==
    /\ pc = "d14_part2"
    /\ finished
    /\ printed' = Append(printed, num_sand)
    /\ pc' = "d14_done"
    /\ UNCHANGED day14
    /\ UNCHANGED NotDay14

Next14 ==
    \/ SandPart1Call
    \/ SimulateSandParticlePart1
    \/ SandPart1Print
    \/ SandPart2Call
    \/ SimulateSandParticlePart2
    \/ SandPart2Print

Spec14 == Init14 /\ [][Next14]_vars

\* a particle is being simulated
Simulating14 == pc \in {"d14_sim1", "d14_sim2"}

\* C23: for every rock region, whenever the loop of
\* _simulate_sand_particle_part_1 or of _simulate_sand_particle_part_2 is at
\* its head the particle's point is not in occupied_points, so neither
\* assertion fails; in particular no particle is started from the source
\* once the source is occupied.
C23_ParticleNeverOnOccupiedPoint ==
    /\ Simulating14 => curr_point \notin occupied_points
    /\ pc # "assertion_failed"

----------------------------------------------------------------------------
(* Day 17 (src/src/day_17_part2.py, src/src/day_17.py): falling rocks.     *)
(* day_17_part2 simulates rocks until a cache entry repeats, skips whole   *)
(* cycles and simulates the rest; day_17 simulates every rock.             *)

\* line 18 (day_17.py line 15)
WIDTH == 7

\* the number of top layers in a cache entry (lines 236-238)
TopLayers == 10

\* longest jet pattern of the model
MaxJets == 3

\* largest value of ROCK_NUM in the model
MaxRockNum == 24

\* lines 36-50: the members of Shape in definition order
Shape == <<"HOR_LINE", "PLUS", "L", "VER_LINE", "SQUARE">>

\* lines 52-79: Shape.get_rock_coords
GetRockCoords(shape) ==
    CASE shape = "HOR_LINE" -> {Point(0, 0), Point(1, 0), Point(2, 0), Point(3, 0)}
      [] shape = "PLUS" -> {Point(1, 0), Point(0, 1), Point(1, 1), Point(2, 1), Point(1, 2)}
      [] shape = "L" -> {Point(0, 0), Point(1, 0), Point(2, 0), Point(2, 1), Point(2, 2)}
      [] shape = "VER_LINE" -> {Point(0, 0), Point(0, 1), Point(0, 2), Point(0, 3)}
      [] shape = "SQUARE" -> {Point(0, 0), Point(1, 0), Point(0, 1), Point(1, 1)}

\* the jet patterns of the model: every sequence of "<" and ">" of length
\* 1..MaxJets (lines 81-89: one Direction per character)
JetPatterns ==
    UNION {[1..n -> {"LEFT", "RIGHT"}] : n \in 1..MaxJets}

\* lines 112-116
GetTerrainHighpoint(points) == MaxOfSet({point.y : point \in points})

\* lines 118-129
DoesRockOverlapWithTerrain(rock_points, points) ==
    \/ \E rock_point \in rock_points : rock_point \in points
    \/ \E point \in rock_points : point.x < 0
    \/ \E point \in rock_points : point.x >= WIDTH

Shifted(rock_points, dx, dy) ==
    {Point(point.x + dx, point.y + dy) : point \in rock_points}

\* lines 131-148
SimulateSingleJet(rock_points, points, dir) ==
    LET shifted_rock_points ==
            Shifted(rock_points, IF dir = "LEFT" THEN -1 ELSE 1, 0)
    IN IF DoesRockOverlapWithTerrain(shifted_rock_points, points)
       THEN rock_points
       ELSE shifted_rock_points

\* lines 150-167
SimulateSingleFall(rock_points, points) ==
    LET shifted_rock_points == Shifted(rock_points, 0, -1)
    IN IF DoesRockOverlapWithTerrain(shifted_rock_points, points)
       THEN rock_points
       ELSE shifted_rock_points

\* lines 98-100: the index the generator yields after index i
NextDir(dirs, i) == IF i + 1 >= Len(dirs) THEN 0 ELSE i + 1

\* lines 188-198: the loop of _simulate_single_rock from the state in which
\* the generator is about to yield index i
RECURSIVE JetAndFall(_, _, _, _)
JetAndFall(rock_points, start_terrain, dirs, i) ==
    LET jetted == SimulateSingleJet(rock_points, start_terrain, dirs[i + 1])
        new_rock_points == SimulateSingleFall(jetted, start_terrain)
    IN IF new_rock_points = jetted
       THEN [rock_points |-> jetted, dir_idx |-> i, dir_gen |-> NextDir(dirs, i)]
       ELSE JetAndFall(new_rock_points, start_terrain, dirs, NextDir(dirs, i))

\* lines 169-200: the finishing terrain, the last index yielded and the
\* state of the generator
SimulateSingleRock(start_terrain, shape, dirs, i) ==
    LET terrain_highpoint == GetTerrainHighpoint(start_terrain)
        rock_points == Shifted(GetRockCoords(shape), 2, terrain_highpoint + 4)
        rest == JetAndFall(rock_points, start_terrain, dirs, i)
    IN [terrain |-> start_terrain \cup rest.rock_points,
        dir_idx |-> rest.dir_idx,
        dir_gen |-> rest.dir_gen]

GetCacheEntry_shapeOnly(shape_idx, dir_idx, points) ==
    <<shape_idx, 0, {}>>

\* lines 222-241
GetCacheEntry(shape_idx, dir_idx, points) ==
    LET terrain_highpoint == GetTerrainHighpoint(points)
    IN <<shape_idx, dir_idx,
         {Point(point.x, point.y - terrain_highpoint + TopLayers) :
              point \in {q \in points : q.y >= terrain_highpoint - TopLayers}}>>

\* lines 106-110: the index the shape generator yields after index i
NextShape(i) == IF i + 1 >= Len(Shape) THEN 0 ELSE i + 1

\* lines 257-272: the script up to its first loop
Init17 ==
    /\ directions \in JetPatterns
    /\ ROCK_NUM \in 0..MaxRockNum
    /\ cache = {}
    /\ dir_gen = 0
    /\ shape_gen = 0
    /\ terrain = {Point(x, 0) : x \in 0..(WIDTH - 1)}
    /\ repeat_found = FALSE
    /\ idx = 0
    /\ cycle_length = 0
    /\ cycle_height = 0
    /\ num_cycles = 0
    /\ remaining_after_cycle = 0
    /\ simulated_after_cycle = 0
    /\ height = 0
    /\ printed = <<>>
    /\ pc = "d17_find"
    /\ OnlyDay17

\* lines 275-290: one iteration of the loop that looks for a repeat.  The
\* cache is the set of its items.
FindRepeat ==
    /\ pc = "d17_find"
    /\ ~repeat_found
    /\ LET rock == SimulateSingleRock(terrain, Shape[shape_gen + 1], directions, dir_gen)
           cache_entry == GetCacheEntry(shape_gen, rock.dir_idx, rock.terrain)
           cached == {item \in cache : item.key = cache_entry}
       IN /\ terrain' = rock.terrain
          /\ dir_gen' = rock.dir_gen
          /\ shape_gen' = NextShape(shape_gen)
          /\ IF cached # {}
             THEN /\ cycle_length' = idx - (CHOOSE item \in cached : TRUE).value[1]
                  /\ cycle_height' = GetTerrainHighpoint(rock.terrain)
                                     - (CHOOSE item \in cached : TRUE).value[2]
                  /\ repeat_found' = TRUE
                  /\ UNCHANGED cache
             ELSE /\ cache' = cache \cup
                        {[key |-> cache_entry,
                          value |-> <<idx, GetTerrainHighpoint(rock.terrain)>>]}
                  /\ UNCHANGED <<cycle_length, cycle_height, repeat_found>>
    /\ idx' = idx + 1
    /\ UNCHANGED <<directions, ROCK_NUM, num_cycles, remaining_after_cycle,
                   simulated_after_cycle, height, printed, pc>>
    /\ UNCHANGED NotDay17

\* lines 297-299
CountCycles ==
    /\ pc = "d17_find"
    /\ repeat_found
    /\ LET remaining_rocks == ROCK_NUM - idx
       IN /\ num_cycles' = remaining_rocks \div cycle_length
          /\ remaining_after_cycle' = remaining_rocks % cycle_length
    /\ simulated_after_cycle' = 0
    /\ pc' = "d17_rest"
    /\ UNCHANGED <<directions, ROCK_NUM, cache, dir_gen, shape_gen, terrain,
                   repeat_found, idx, cycle_length, cycle_height, height, printed>>
    /\ UNCHANGED NotDay17

\* lines 301-303: one iteration of the loop over the remaining rocks
SimulateRemaining ==
    /\ pc = "d17_rest"
    /\ simulated_after_cycle < remaining_after_cycle
    /\ LET rock == SimulateSingleRock(terrain, Shape[shape_gen + 1], directions, dir_gen)
       IN /\ terrain' = rock.terrain
          /\ dir_gen' = rock.dir_gen
          /\ shape_gen' = NextShape(shape_gen)
    /\ simulated_after_cycle' = simulated_after_cycle + 1
    /\ UNCHANGED <<directions, ROCK_NUM, cache, repeat_found, idx, cycle_length,
                   cycle_height, num_cycles, remaining_after_cycle, height,
                   printed, pc>>
    /\ UNCHANGED NotDay17

\* lines 307-310
PrintHeight ==
    /\ pc = "d17_rest"
    /\ simulated_after_cycle >= remaining_after_cycle
    /\ height' = GetTerrainHighpoint(terrain) + num_cycles * cycle_height
    /\ printed' = Append(printed, GetTerrainHighpoint(terrain) + num_cycles * cycle_height)
    /\ pc' = "d17_done"
    /\ UNCHANGED <<directions, ROCK_NUM, cache, dir_gen, shape_gen, terrain,
                   repeat_found, idx, cycle_length, cycle_height, num_cycles,
                   remaining_after_cycle, simulated_after_cycle>>
    /\ UNCHANGED NotDay17

Next17 ==
    \/ FindRepeat
    \/ CountCycles
    \/ SimulateRemaining
    \/ PrintHeight

Spec17 == Init17 /\ [][Next17]_vars


\* day_17.py lines 229-241: the terrain after num_rocks rocks simulated one
\* at a time, from the terrain points, generator states shape_idx and dir_pos
RECURSIVE SimulateRocks(_, _, _, _, _)
SimulateRocks(num_rocks, points, dirs, shape_idx, dir_pos) ==
    IF num_rocks = 0
    THEN points
    ELSE LET rock == SimulateSingleRock(points, Shape[shape_idx + 1], dirs, dir_pos)
         IN SimulateRocks(num_rocks - 1, rock.terrain, dirs,
                          NextShape(shape_idx), rock.dir_gen)

\* day_17.py lines 229-241: the height printed by part 1 for num_rocks rocks
Part1Height(dirs, num_rocks) ==
    GetTerrainHighpoint(
        SimulateRocks(num_rocks, {Point(x, 0) : x \in 0..(WIDTH - 1)}, dirs, 0, 0))

\* the rocks simulated when the repeated cache entry was first stored
FirstSeen == idx - cycle_length

C24_WitnessBelowLoop ==
    /\ pc = "d17_done"
    /\ ROCK_NUM >= FirstSeen
    /\ ROCK_NUM < idx
    /\ num_cycles < 0

----------------------------------------------------------------------------
(* Day 9 (src/src/day_9.py): a rope of knots follows its head.             *)

\* line 141
num_knots == 10

\* most moves in the data file of the model
MaxMoves == 3

\* largest number of steps of one move in the model
MaxMoveNum == 2

\* lines 15-21
Position(x, y) == [x |-> x, y |-> y]

\* lines 23-30
Direction9 == {"R", "L", "U", "D"}

\* lines 46-62: the lists of moves of the model
MoveLists ==
    UNION {[1..n -> Direction9 \X (1..MaxMoveNum)] : n \in 1..MaxMoves}

Abs(n) == IF n < 0 THEN -n ELSE n

\* lines 65-69
ArePositionsAdj(pos1, pos2) ==
    Abs(pos1.x - pos2.x) <= 1 /\ Abs(pos1.y - pos2.y) <= 1

\* lines 71-89
GetNewHeadPos(dir, start_pos) ==
    CASE dir = "U" -> Position(start_pos.x, start_pos.y + 1)
      [] dir = "D" -> Position(start_pos.x, start_pos.y - 1)
      [] dir = "L" -> Position(start_pos.x - 1, start_pos.y)
      [] dir = "R" -> Position(start_pos.x + 1, start_pos.y)

\* lines 96-114: new_tail_pos
NewTailPos_straightOnly(head, start_tail_pos) ==
    IF ArePositionsAdj(head, start_tail_pos)
    THEN start_tail_pos
    ELSE IF head.x > start_tail_pos.x
         THEN Position(start_tail_pos.x + 1, start_tail_pos.y)
         ELSE IF head.x < start_tail_pos.x
              THEN Position(start_tail_pos.x - 1, start_tail_pos.y)
              ELSE IF head.y > start_tail_pos.y
                   THEN Position(start_tail_pos.x, start_tail_pos.y + 1)
                   ELSE Position(start_tail_pos.x, start_tail_pos.y - 1)

NewTailPos(head, start_tail_pos) ==
    IF ArePositionsAdj(head, start_tail_pos)
    THEN start_tail_pos
    ELSE Position(
             IF head.x > start_tail_pos.x THEN start_tail_pos.x + 1
             ELSE IF head.x < start_tail_pos.x THEN start_tail_pos.x - 1
             ELSE start_tail_pos.x,
             IF head.y > start_tail_pos.y THEN start_tail_pos.y + 1
             ELSE IF head.y < start_tail_pos.y THEN start_tail_pos.y - 1
             ELSE start_tail_pos.y)

\* line 115: the assertion of _get_new_tail_pos holds for this call
TailAssertion(head, start_tail_pos) ==
    ArePositionsAdj(head, NewTailPos(head, start_tail_pos))

\* lines 155-158: the knots after the iterations i, i+1, ... of the loop
\* over the knots; the loop stops at the first failed assertion
RECURSIVE FollowKnots(_, _)
FollowKnots(knots, i) ==
    IF i > num_knots - 2
    THEN [knots |-> knots, failed |-> FALSE]
    ELSE IF ~TailAssertion(knots[i + 1], knots[i + 2])
         THEN [knots |-> knots, failed |-> TRUE]
         ELSE FollowKnots(
                  [knots EXCEPT ![i + 2] = NewTailPos(knots[i + 1], knots[i + 2])],
                  i + 1)

\* lines 122-129
Init9 ==
    /\ moves \in MoveLists
    /\ head_pos = Position(0, 0)
    /\ tail_pos = Position(0, 0)
    /\ tail_positions = {Position(0, 0)}
    /\ knot_positions = <<>>
    /\ tail_positions_part2 = {}
    /\ move_idx = 0
    /\ step_idx = 0
    /\ printed = <<>>
    /\ pc = "d9_part1"
    /\ OnlyDay9

\* lines 132-133, 147-149: the loop counters after one more step
StepDone ==
    IF step_idx + 1 >= moves[move_idx + 1][2]
    THEN /\ move_idx' = move_idx + 1
         /\ step_idx' = 0
    ELSE /\ step_idx' = step_idx + 1
         /\ UNCHANGED move_idx

\* lines 133-136: one step of the head in part 1
RopeStepPart1 ==
    /\ pc = "d9_part1"
    /\ move_idx < Len(moves)
    /\ LET new_head == GetNewHeadPos(moves[move_idx + 1][1], head_pos)
       IN /\ head_pos' = new_head
          /\ IF TailAssertion(new_head, tail_pos)
             THEN /\ tail_pos' = NewTailPos(new_head, tail_pos)
                  /\ tail_positions' = tail_positions \cup {NewTailPos(new_head, tail_pos)}
                  /\ StepDone
                  /\ UNCHANGED pc
             ELSE /\ pc' = "assertion_failed"
                  /\ UNCHANGED <<tail_pos, tail_positions, move_idx, step_idx>>
    /\ UNCHANGED <<moves, knot_positions, tail_positions_part2, printed>>
    /\ UNCHANGED NotDay9

\* lines 138-144
RopePrintPart1 ==
    /\ pc = "d9_part1"
    /\ move_idx >= Len(moves)
    /\ printed' = Append(printed, Cardinality(tail_positions))
    /\ knot_positions' = [i \in 1..num_knots |-> Position(0, 0)]
    /\ tail_positions_part2' = {}
    /\ move_idx' = 0
    /\ step_idx' = 0
    /\ pc' = "d9_part2"
    /\ UNCHANGED <<moves, head_pos, tail_pos, tail_positions>>
    /\ UNCHANGED NotDay9

\* lines 149-161: one step of the head in part 2
RopeStepPart2 ==
    /\ pc = "d9_part2"
    /\ move_idx < Len(moves)
    /\ LET moved == [knot_positions EXCEPT
                        ![1] = GetNewHeadPos(moves[move_idx + 1][1], knot_positions[1])]
           followed == FollowKnots(moved, 0)
       IN /\ knot_positions' = followed.knots
          /\ IF followed.failed
             THEN /\ pc' = "assertion_failed"
                  /\ UNCHANGED <<tail_positions_part2, move_idx, step_idx>>
             ELSE /\ tail_positions_part2' =
                         tail_positions_part2 \cup {followed.knots[num_knots]}
                  /\ StepDone
                  /\ UNCHANGED pc
    /\ UNCHANGED <<moves, head_pos, tail_pos, tail_positions, printed>>
    /\ UNCHANGED NotDay9

\* line 163
RopePrintPart2 ==
    /\ pc = "d9_part2"
    /\ move_idx >= Len(moves)
    /\ printed' = Append(printed, Cardinality(tail_positions_part2))
    /\ pc' = "d9_done"
    /\ UNCHANGED day9
    /\ UNCHANGED NotDay9

Next9 ==
    \/ RopeStepPart1
    \/ RopePrintPart1
    \/ RopeStepPart2
    \/ RopePrintPart2

Spec9 == Init9 /\ [][Next9]_vars

\* every knot of the rope of part 2 is adjacent to the knot in front of it
KnotsAdjacent ==
    \A i \in 1..(Len(knot_positions) - 1) :
        ArePositionsAdj(knot_positions[i], knot_positions[i + 1])

\* C25: after each single step of the head every knot is adjacent to the
\* knot in front of it, and the assertion of _get_new_tail_pos never fails,
\* for the rope of part 1 and for the rope of part 2.
C25_KnotsStayAdjacent ==
    /\ pc # "assertion_failed"
    /\ ArePositionsAdj(head_pos, tail_pos)
    /\ KnotsAdjacent

\* part 2 is running after a part 1 whose tail moved at least twice; a knot
\* behind the head is two away from the origin in both coordinates and the
\* knot behind it has followed it
C25_Witness ==
    /\ pc = "d9_part2"
    /\ Cardinality(tail_positions) >= 3
    /\ \E i \in 2..(num_knots - 1) :
           /\ Abs(knot_positions[i].x) = 2
           /\ Abs(knot_positions[i].y) = 2
           /\ knot_positions[i + 1] # Position(0, 0)
    /\ KnotsAdjacent

----------------------------------------------------------------------------
(* Day 11 (src/src/day_11.py), part 2: monkeys throw items; the worry      *)
(* levels are kept modulo the least common multiple of the test values.    *)
(* Part 1 (lines 293-301) runs on Monkey objects of its own and leaves     *)
(* nothing that part 2 reads; the model starts at line 305.                *)

\* rounds of part 2 in the model (10000 in line 316)
MaxRounds == 3

\* the worry levels of the simulation without reduction are followed up
\* to a level above which the next operation is not computed
MaxWorry == 40000

\* lines 28-31, 168-184: the operations of the model, (op_type, op_val)
\* with op_val a set that is empty for None
Operations == {<<"SQUARE", {}>>, <<"ADD", {1}>>, <<"MULTIPLY", {3}>>}

\* line 187: the test values of the model
TestVals == {2, 3}

\* lines 164-165: the starting items of monkey 0 in the model; the other
\* monkeys start without items
ItemLists == {<<1>>, <<2, 3>>}

\* the monkeys of the model are numbered 0, 1 and 2
MonkeyNums == {0, 1, 2}

\* lines 193-201
Monkey2(num, item_levels, op, test_val, next_hop_true, next_hop_false) ==
    [num |-> num, item_levels |-> item_levels, op_type |-> op[1],
     op_val |-> op[2], test_val |-> test_val, next_hop_true |-> next_hop_true,
     next_hop_false |-> next_hop_false, item_inspect_count |-> 0]

\* lines 150-209: the lists of monkeys of the model, sorted by number; no
\* monkey throws to itself
MonkeyLists ==
    {[i \in 1..3 |->
         Monkey2(i - 1, IF i = 1 THEN items ELSE <<>>, ops[i], tests[i],
                 hops[i][1], hops[i][2])] :
        items \in ItemLists,
        ops \in [1..3 -> Operations],
        tests \in [1..3 -> TestVals],
        hops \in {h \in [1..3 -> MonkeyNums \X MonkeyNums] :
                     \A i \in 1..3 : h[i][1] # i - 1 /\ h[i][2] # i - 1}}

RECURSIVE Gcd(_, _)
Gcd(a, b) == IF b = 0 THEN a ELSE Gcd(b, a % b)

CalculateLcm_firstOnly(vals) == vals[1]

\* lines 62-73
RECURSIVE CalculateLcm(_)
CalculateLcm(vals) ==
    IF Len(vals) = 2
    THEN (vals[1] * vals[2]) \div Gcd(vals[1], vals[2])
    ELSE LET rest == CalculateLcm(Tail(vals))
         IN (vals[1] * rest) \div Gcd(vals[1], rest)

\* lines 211-222: the index in monkeys of the monkey with the number
GetMonkeyFromList(monkeys, monkey_num) ==
    CHOOSE i \in 1..Len(monkeys) : monkeys[i].num = monkey_num

\* lines 264-271
Operate(monkey, item_level) ==
    CASE monkey.op_type = "SQUARE" -> item_level * item_level
      [] monkey.op_type = "ADD" ->
            item_level + (CHOOSE v \in monkey.op_val : TRUE)
      [] monkey.op_type = "MULTIPLY" ->
            item_level * (CHOOSE v \in monkey.op_val : TRUE)

\* line 274; with exact the level is not scaled down, and a level whose
\* operand was above MaxWorry is not followed (-1)
ScaledLevel(monkey, item_level, modulo_size, exact) ==
    IF exact
    THEN IF item_level < 0 \/ item_level > MaxWorry
         THEN -1
         ELSE Operate(monkey, item_level)
    ELSE Operate(monkey, item_level) % modulo_size

\* lines 260-287: one iteration of the loop over the items of monkey m
InspectItem(monkeys, m, modulo_size, exact) ==
    LET monkey == monkeys[m]
        item_level == ScaledLevel(monkey, monkey.item_levels[Len(monkey.item_levels)],
                                  modulo_size, exact)
        test_outcome == item_level % monkey.test_val = 0
        next_monkey == GetMonkeyFromList(
                           monkeys,
                           IF test_outcome THEN monkey.next_hop_true
                                           ELSE monkey.next_hop_false)
        popped == [monkeys EXCEPT
                      ![m].item_levels = SubSeq(@, 1, Len(@) - 1),
                      ![m].item_inspect_count = @ + 1]
    IN [popped EXCEPT ![next_monkey].item_levels = <<item_level>> \o @]

\* lines 258-287: the monkeys after the turns of monkey m and of the
\* monkeys behind it
RECURSIVE Turns(_, _, _, _)
Turns(monkeys, m, modulo_size, exact) ==
    IF m > Len(monkeys)
    THEN monkeys
    ELSE IF monkeys[m].item_levels = <<>>
         THEN Turns(monkeys, m + 1, modulo_size, exact)
         ELSE Turns(InspectItem(monkeys, m, modulo_size, exact), m, modulo_size, exact)

\* lines 254-287
SimulateRoundPart2(monkeys, modulo_size) == Turns(monkeys, 1, modulo_size, FALSE)

\* lines 254-287 without line 274: a round with exact worry levels
ExactRound(monkeys) == Turns(monkeys, 1, 1, TRUE)

\* the monkeys after a number of rounds with exact worry levels
RECURSIVE ExactRounds(_, _)
ExactRounds(monkeys, rounds) ==
    IF rounds = 0 THEN monkeys ELSE ExactRound(ExactRounds(monkeys, rounds - 1))

\* every exact worry level was computed
Followed(monkeys) ==
    \A i \in 1..Len(monkeys) : \A j \in 1..Len(monkeys[i].item_levels) :
        monkeys[i].item_levels[j] >= 0

\* lines 305-314
Init11 ==
    /\ monkey_matches \in MonkeyLists
    /\ monkeys_2 = monkey_matches
    /\ lcm = CalculateLcm([i \in 1..Len(monkey_matches) |-> monkey_matches[i].test_val])
    /\ rounds_done = 0
    /\ printed = <<>>
    /\ pc = "d11_part2"
    /\ OnlyDay11

\* lines 316-317: one round, while the exact worry levels of the same
\* rounds are followed
MonkeyRoundPart2 ==
    /\ pc = "d11_part2"
    /\ rounds_done < MaxRounds
    /\ Followed(ExactRounds(monkey_matches, rounds_done + 1))
    /\ monkeys_2' = SimulateRoundPart2(monkeys_2, lcm)
    /\ rounds_done' = rounds_done + 1
    /\ UNCHANGED <<monkey_matches, lcm, printed, pc>>
    /\ UNCHANGED NotDay11

\* lines 319-320: the two largest counts
MonkeyBusiness(monkeys) ==
    LET first == CHOOSE i \in 1..Len(monkeys) :
                     \A j \in 1..Len(monkeys) :
                         monkeys[i].item_inspect_count >= monkeys[j].item_inspect_count
        second == CHOOSE i \in 1..Len(monkeys) \ {first} :
                      \A j \in 1..Len(monkeys) \ {first} :
                          monkeys[i].item_inspect_count >= monkeys[j].item_inspect_count
    IN monkeys[first].item_inspect_count * monkeys[second].item_inspect_count

\* lines 319-323
MonkeyPrintPart2 ==
    /\ pc = "d11_part2"
    /\ rounds_done >= MaxRounds
    /\ printed' = Append(printed, MonkeyBusiness(monkeys_2))
    /\ pc' = "d11_done"
    /\ UNCHANGED day11
    /\ UNCHANGED NotDay11

Next11 ==
    \/ MonkeyRoundPart2
    \/ MonkeyPrintPart2

Spec11 == Init11 /\ [][Next11]_vars

\* the monkeys of the exact simulation after the rounds done so far
ExactMonkeys == ExactRounds(monkey_matches, rounds_done)

\* C26: the reduction modulo the least common multiple never changes the
\* monkey an item is thrown to: after every round each monkey holds the
\* same number of items as with exact worry levels, in the same order and
\* with the same remainders modulo the least common multiple, and its
\* item_inspect_count is the count of the exact simulation.
C26_ReductionKeepsThrowsAndCounts ==
    pc \in {"d11_part2", "d11_done"} =>
        \A i \in 1..Len(monkeys_2) :
            /\ monkeys_2[i].item_inspect_count = ExactMonkeys[i].item_inspect_count
            /\ Len(monkeys_2[i].item_levels) = Len(ExactMonkeys[i].item_levels)
            /\ \A j \in 1..Len(monkeys_2[i].item_levels) :
                   monkeys_2[i].item_levels[j] % lcm = ExactMonkeys[i].item_levels[j] % lcm

\* an exact level is above the modulus, the monkeys have different test
\* values and targets that depend on the test, and two rounds are done
C26_Witness ==
    /\ pc = "d11_part2"
    /\ rounds_done >= 2
    /\ lcm = 6
    /\ \E i \in 1..Len(monkeys_2) : \E j \in 1..Len(monkeys_2[i].item_levels) :
           ExactMonkeys[i].item_levels[j] > 100 * lcm
    /\ \A i \in 1..Len(monkeys_2) :
           /\ monkeys_2[i].next_hop_true # monkeys_2[i].next_hop_false
           /\ monkeys_2[i].item_inspect_count > 0
    /\ \E i, j \in 1..Len(monkeys_2) :
           monkeys_2[i].item_inspect_count # monkeys_2[j].item_inspect_count

----------------------------------------------------------------------------
(* Day 6 (src/src/day_6.py): the first window of distinct characters.      *)

\* longest input of the model
MaxInputLen == 5

\* the characters of the inputs of the model
Chars == {"a", "b", "c", "d"}

\* line 31: the inputs of the model
InputStrs == UNION {[1..n -> Chars] : n \in 0..MaxInputLen}

\* lines 20-24: the loop takes the indices in increasing order and stops at
\* the first it accepts
MinOfSet(S) == CHOOSE m \in S : \A x \in S : m <= x

\* line 22: the window of seq_len characters at index i has no repeat
Distinct(str, i, seq_len) ==
    Cardinality({str[i + k] : k \in 1..seq_len}) = seq_len

\* lines 11-26: {} for None
GetStartOfPacketMarker(str, seq_len) ==
    LET input_len == Len(str)
        found == {i \in 0..(input_len - seq_len - 1) : Distinct(str, i, seq_len)}
    IN IF found = {} THEN {} ELSE {MinOfSet(found) + seq_len}

\* line 31
Init6 ==
    /\ input_str \in InputStrs
    /\ marker = {}
    /\ printed = <<>>
    /\ pc = "d6_part1"
    /\ OnlyDay6

\* lines 34-35
MarkerPart1 ==
    /\ pc = "d6_part1"
    /\ marker' = GetStartOfPacketMarker(input_str, 4)
    /\ printed' = Append(printed, GetStartOfPacketMarker(input_str, 4))
    /\ pc' = "d6_part2"
    /\ UNCHANGED input_str
    /\ UNCHANGED NotDay6

\* lines 38-39
MarkerPart2 ==
    /\ pc = "d6_part2"
    /\ marker' = GetStartOfPacketMarker(input_str, 14)
    /\ printed' = Append(printed, GetStartOfPacketMarker(input_str, 14))
    /\ pc' = "d6_done"
    /\ UNCHANGED input_str
    /\ UNCHANGED NotDay6

Next6 ==
    \/ MarkerPart1
    \/ MarkerPart2

Spec6 == Init6 /\ [][Next6]_vars

\* the indices of all windows of seq_len characters, the last one included
Windows(str, seq_len) == 0..(Len(str) - seq_len)

\* C27: the function returns i + seq_len for the smallest i whose window of
\* seq_len characters is pairwise distinct, every window counted, the last
\* one (i = len(input_str) - seq_len) included, and None only when there is
\* no such window.
C27_FirstDistinctWindow ==
    pc \in {"d6_part2", "d6_done"} =>
        LET seq_len == IF pc = "d6_part2" THEN 4 ELSE 14
            distinct == {i \in Windows(input_str, seq_len) :
                            Distinct(input_str, i, seq_len)}
        IN /\ distinct = {} => marker = {}
           /\ distinct # {} => marker = {MinOfSet(distinct) + seq_len}

----------------------------------------------------------------------------
(* Day 5 (src/src/day_5.py): a crane moves crates between stacks.          *)

\* largest num_moved of an operation of the model
MaxMoved == 2

\* the crates of the model
Crates == <<"A", "B", "C">>

\* the stacks of the model are numbered 1, 2 and 3
StackNums == {1, 2, 3}

\* lines 24-52: the stack configurations of the model: every crate is on
\* one of the stacks
StackConfigs ==
    {[i \in 1..3 |->
         LET on_i == {c \in 1..Len(Crates) : place[c] = i}
             RECURSIVE InOrder(_)
             InOrder(c) ==
                 IF c > Len(Crates) THEN <<>>
                 ELSE (IF c \in on_i THEN <<Crates[c]>> ELSE <<>>) \o InOrder(c + 1)
         IN InOrder(1)] :
        place \in [1..Len(Crates) -> StackNums]}

\* lines 15-22
StackOperation(start_stack, end_stack, num_moved) ==
    [start_stack |-> start_stack, end_stack |-> end_stack, num_moved |-> num_moved]

\* lines 65-80: the operations of the model
StackOperations ==
    {StackOperation(s, e, n) : s \in StackNums, e \in StackNums, n \in 0..MaxMoved}

\* lines 70-80: the operation lists of the model
OperationLists == [1..1 -> StackOperations] \cup [1..2 -> StackOperations]

\* lines 97-99: the stacks after the remaining iterations of the loop; the
\* pop of line 98 raises IndexError on an empty stack
RECURSIVE PopAndAppend(_, _, _)
PopAndAppend(stks, op, remaining) ==
    IF remaining = 0
    THEN [stacks |-> stks, raised |-> FALSE]
    ELSE IF stks[op.start_stack] = <<>>
         THEN [stacks |-> stks, raised |-> TRUE]
         ELSE LET crate == stks[op.start_stack][Len(stks[op.start_stack])]
                  popped == [stks EXCEPT ![op.start_stack] = SubSeq(@, 1, Len(@) - 1)]
              IN PopAndAppend([popped EXCEPT ![op.end_stack] = Append(@, crate)],
                              op, remaining - 1)

\* lines 91-99
PerformStackOperation9000(stks, op) == PopAndAppend(stks, op, op.num_moved)

\* line 107: the slice [-n : ] of a list; -0 is 0 and the slice from 0 is
\* the whole list
SliceFromMinus(list, n) ==
    IF n = 0 THEN list ELSE SubSeq(list, Max(Len(list) - n, 0) + 1, Len(list))

\* line 110: the slice [ : -n] of a list; the slice up to 0 is empty
SliceToMinus(list, n) ==
    IF n = 0 THEN <<>> ELSE SubSeq(list, 1, Max(Len(list) - n, 0))

\* lines 101-112
PerformStackOperation9001(stks, op) ==
    LET crates_to_move == SliceFromMinus(stks[op.start_stack], op.num_moved)
        cut == [stks EXCEPT ![op.start_stack] = SliceToMinus(@, op.num_moved)]
    IN [cut EXCEPT ![op.end_stack] = @ \o crates_to_move]

\* lines 114-122
GetTopOfStacksStr(stks) ==
    [i \in 1..Len(stks) |-> IF stks[i] # <<>> THEN stks[i][Len(stks[i])] ELSE " "]

\* lines 128-131
Init5 ==
    /\ stacks \in StackConfigs
    /\ operations \in OperationLists
    /\ stacks_copy = stacks
    /\ op_idx = 0
    /\ top_of_stack_str = <<>>
    /\ printed = <<>>
    /\ pc = "d5_part1"
    /\ OnlyDay5

\* lines 132-133: one operation of part 1
CratesPart1Op ==
    /\ pc = "d5_part1"
    /\ op_idx < Len(operations)
    /\ LET done == PerformStackOperation9000(stacks_copy, operations[op_idx + 1])
       IN /\ stacks_copy' = done.stacks
          /\ IF done.raised
             THEN /\ pc' = "IndexError"
                  /\ UNCHANGED op_idx
             ELSE /\ op_idx' = op_idx + 1
                  /\ UNCHANGED pc
    /\ UNCHANGED <<stacks, operations, top_of_stack_str, printed>>
    /\ UNCHANGED NotDay5

\* lines 135-139
CratesPart1Print ==
    /\ pc = "d5_part1"
    /\ op_idx >= Len(operations)
    /\ top_of_stack_str' = GetTopOfStacksStr(stacks_copy)
    /\ printed' = Append(printed, GetTopOfStacksStr(stacks_copy))
    /\ stacks_copy' = stacks
    /\ op_idx' = 0
    /\ pc' = "d5_part2"
    /\ UNCHANGED <<stacks, operations>>
    /\ UNCHANGED NotDay5

\* lines 140-141: one operation of part 2
CratesPart2Op ==
    /\ pc = "d5_part2"
    /\ op_idx < Len(operations)
    /\ stacks_copy' = PerformStackOperation9001(stacks_copy, operations[op_idx + 1])
    /\ op_idx' = op_idx + 1
    /\ UNCHANGED <<stacks, operations, top_of_stack_str, printed, pc>>
    /\ UNCHANGED NotDay5

\* lines 143-144
CratesPart2Print ==
    /\ pc = "d5_part2"
    /\ op_idx >= Len(operations)
    /\ top_of_stack_str' = GetTopOfStacksStr(stacks_copy)
    /\ printed' = Append(printed, GetTopOfStacksStr(stacks_copy))
    /\ pc' = "d5_done"
    /\ UNCHANGED <<stacks, operations, stacks_copy, op_idx>>
    /\ UNCHANGED NotDay5

Next5 ==
    \/ CratesPart1Op
    \/ CratesPart1Print
    \/ CratesPart2Op
    \/ CratesPart2Print

Spec5 == Init5 /\ [][Next5]_vars

\* the number of times a crate is in a list
Occurrences(list, crate) == Cardinality({k \in 1..Len(list) : list[k] = crate})

\* the number of crates on all stacks
TotalCrates(stks) == SumOfList([i \in 1..Len(stks) |-> Len(stks[i])])

\* the top num_moved crates of the start stack, taken off and put on the end
\* stack in their order
TopCratesMoved(stks, op) ==
    LET start == stks[op.start_stack]
        top == SubSeq(start, Len(start) - op.num_moved + 1, Len(start))
        taken == [stks EXCEPT ![op.start_stack] =
                                  SubSeq(start, 1, Len(start) - op.num_moved)]
    IN [taken EXCEPT ![op.end_stack] = @ \o top]

\* the two lists of stacks differ only in the order of the top num_moved
\* crates of the end stack
SameButOrderOfMoved(stks1, stks2, op) ==
    \A i \in 1..Len(stks1) :
        /\ Len(stks1[i]) = Len(stks2[i])
        /\ \A crate \in Range(Crates) :
               Occurrences(stks1[i], crate) = Occurrences(stks2[i], crate)
        /\ \A k \in 1..Len(stks1[i]) :
               (i # op.end_stack \/ k <= Len(stks1[i]) - op.num_moved) =>
                   stks1[i][k] = stks2[i][k]

\* C28: an operation of _perform_stack_operation_9001 with 0 <= num_moved <=
\* size of the start stack takes exactly the top num_moved crates off the
\* start stack and puts them in their order on the end stack; the other
\* stacks and the number of crates are unchanged, and the stacks differ
\* from those of _perform_stack_operation_9000 only in the order of the
\* moved crates.
C28_MovesTopCratesInOrder ==
    [][(pc = "d5_part2" /\ op_idx < Len(operations)) =>
          LET op == operations[op_idx + 1]
          IN op.num_moved <= Len(stacks_copy[op.start_stack]) =>
                 /\ stacks_copy' = TopCratesMoved(stacks_copy, op)
                 /\ \A i \in StackNums \ {op.start_stack, op.end_stack} :
                        stacks_copy'[i] = stacks_copy[i]
                 /\ TotalCrates(stacks_copy') = TotalCrates(stacks_copy)
                 /\ SameButOrderOfMoved(
                        stacks_copy',
                        PerformStackOperation9000(stacks_copy, op).stacks, op)]_vars

----------------------------------------------------------------------------
(* Day 20 (src/src/day_20.py): mixing a circular list of numbers.          *)

\* most numbers in the data file of the model
MaxNumbers == 4

\* line 94
DecryptionKey == 811589153

\* line 98
MixRounds == 10

\* line 19: the numbers of the data files of the model
FileNumbers == {-1, 0, 1}

\* lines 13-19: the lists of the model; _simulate_update divides by
\* numbers_len - 1, so the lists have two numbers or more
NumberLists == UNION {[1..n -> FileNumbers] : n \in 2..MaxNumbers}

\* line 32: list.index, 0-based
IndexOf(list, value) ==
    (CHOOSE k \in 1..Len(list) :
         list[k] = value /\ \A j \in 1..(k - 1) : list[j] # value) - 1

\* line 33: the list after pop(i), i 0-based
PoppedAt(list, i) == SubSeq(list, 1, i) \o SubSeq(list, i + 2, Len(list))

\* line 43: the list after insert(i, value), i 0-based and at most len(list)
InsertedAt(list, i, value) ==
    SubSeq(list, 1, i) \o <<value>> \o SubSeq(list, i + 1, Len(list))

\* lines 21-43: index_mapping after the call
SimulateUpdate_insertsNumber(update_idx, nums, mapping) ==
    LET numbers_len == Len(nums)
        found == IndexOf(mapping, update_idx)
        circle_arr_idx == (found + nums[update_idx + 1]) % (numbers_len - 1)
    IN InsertedAt(PoppedAt(mapping, found), circle_arr_idx, nums[update_idx + 1])

SimulateUpdate(update_idx, nums, mapping) ==
    LET numbers_len == Len(nums)
        found == IndexOf(mapping, update_idx)
        circle_arr_idx == (found + nums[update_idx + 1]) % (numbers_len - 1)
    IN InsertedAt(PoppedAt(mapping, found), circle_arr_idx, update_idx)

\* lines 45-64
GetGroveCoordinates(nums, mapping) ==
    LET numbers_len == Len(nums)
        zero_idx == IndexOf(nums, 0)
        zero_circular_idx == IndexOf(mapping, zero_idx)
    IN [k \in 1..3 |->
           nums[mapping[((zero_circular_idx + 1000 * k) % numbers_len) + 1] + 1]]

\* line 84: list(range(numbers_len))
RangeList(n) == [k \in 1..n |-> k - 1]

\* lines 77-84
Init20 ==
    /\ numbers \in NumberLists
    /\ index_mapping = RangeList(Len(numbers))
    /\ mix_i = 0
    /\ mix_round = 0
    /\ coords = <<>>
    /\ printed = <<>>
    /\ pc = "d20_part1"
    /\ OnlyDay20

\* lines 87-88: one update of part 1
MixPart1Update ==
    /\ pc = "d20_part1"
    /\ mix_i < Len(numbers)
    /\ index_mapping' = SimulateUpdate(mix_i, numbers, index_mapping)
    /\ mix_i' = mix_i + 1
    /\ UNCHANGED <<numbers, mix_round, coords, printed, pc>>
    /\ UNCHANGED NotDay20

\* lines 90-95; numbers.index(0) of line 55 raises ValueError when no
\* number is 0
MixPart1Print ==
    /\ pc = "d20_part1"
    /\ mix_i >= Len(numbers)
    /\ IF 0 \in Range(numbers)
       THEN /\ coords' = GetGroveCoordinates(numbers, index_mapping)
            /\ printed' = Append(printed, SumOfList(GetGroveCoordinates(numbers, index_mapping)))
            /\ numbers' = [k \in 1..Len(numbers) |-> numbers[k] * DecryptionKey]
            /\ index_mapping' = RangeList(Len(numbers))
            /\ mix_i' = 0
            /\ pc' = "d20_part2"
       ELSE /\ pc' = "ValueError"
            /\ UNCHANGED <<numbers, index_mapping, mix_i, coords, printed>>
    /\ UNCHANGED mix_round
    /\ UNCHANGED NotDay20

\* lines 98-100: one update of part 2
MixPart2Update ==
    /\ pc = "d20_part2"
    /\ mix_round < MixRounds
    /\ index_mapping' = SimulateUpdate(mix_i, numbers, index_mapping)
    /\ IF mix_i + 1 >= Len(numbers)
       THEN /\ mix_i' = 0
            /\ mix_round' = mix_round + 1
       ELSE /\ mix_i' = mix_i + 1
            /\ UNCHANGED mix_round
    /\ UNCHANGED <<numbers, coords, printed, pc>>
    /\ UNCHANGED NotDay20

\* lines 102-103
MixPart2Print ==
    /\ pc = "d20_part2"
    /\ mix_round >= MixRounds
    /\ coords' = GetGroveCoordinates(numbers, index_mapping)
    /\ printed' = Append(printed, SumOfList(GetGroveCoordinates(numbers, index_mapping)))
    /\ pc' = "d20_done"
    /\ UNCHANGED <<numbers, index_mapping, mix_i, mix_round>>
    /\ UNCHANGED NotDay20

Next20 ==
    \/ MixPart1Update
    \/ MixPart1Print
    \/ MixPart2Update
    \/ MixPart2Print

Spec20 == Init20 /\ [][Next20]_vars

\* the list has length n and holds every index of 0..n-1 exactly once
IsPermutation(mapping, n) ==
    /\ Len(mapping) = n
    /\ \A original \in 0..(n - 1) :
           Cardinality({k \in 1..Len(mapping) : mapping[k] = original}) = 1

\* C29: after any sequence of _simulate_update calls, index_mapping is a
\* permutation of 0..n-1: it has length n and holds every original index
\* exactly once; a call with any index of 0..n-1, not only the next one of
\* the script, leaves a permutation.
C29_MappingIsPermutation ==
    pc \in {"d20_part1", "d20_part2", "d20_done"} =>
        /\ IsPermutation(index_mapping, Len(numbers))
        /\ \A any_idx \in 0..(Len(numbers) - 1) :
               IsPermutation(SimulateUpdate(any_idx, numbers, index_mapping),
                             Len(numbers))

\* part 2 is mixing a list with equal numbers, a round is done, and the
\* circular order is not the original order
C29_Witness ==
    /\ pc = "d20_part2"
    /\ mix_round >= 1
    /\ mix_i > 0
    /\ Len(numbers) = MaxNumbers
    /\ \E j, k \in 1..Len(numbers) : j # k /\ numbers[j] = numbers[k] /\ numbers[j] # 0
    /\ index_mapping # RangeList(Len(numbers))
    /\ index_mapping[1] # 0

----------------------------------------------------------------------------
(* Day 23 (src/src/day_23.py): elves spread out over a grid.               *)

\* most elves in the data file of the model
MaxElves == 4

\* line 172
Part1Steps == 10

\* utils.py lines 46-53: the members of Direction in definition order
Directions == <<"NORTH", "SOUTH", "WEST", "EAST">>

\* lines 17-38: the data files of the model have four lines of two symbols
ElfLayouts ==
    {layout \in SUBSET {Point(row_num, col_num) : row_num \in 0..3, col_num \in 0..1} :
        Cardinality(layout) <= MaxElves}

\* lines 40-47
GetNextDirection(cur_dir) ==
    LET cur_dir_idx == CHOOSE k \in 1..Len(Directions) : Directions[k] = cur_dir
    IN Directions[(cur_dir_idx % Len(Directions)) + 1]

\* lines 49-58
GetAllDirections(start) ==
    LET start_dir_idx == CHOOSE k \in 1..Len(Directions) : Directions[k] = start
    IN SubSeq(Directions, start_dir_idx, Len(Directions))
           \o SubSeq(Directions, 1, start_dir_idx - 1)

\* lines 60-71
GetAdjPointsDir(base_point, dir) ==
    LET rel_points ==
            CASE dir = "NORTH" -> {Point(-1, -1), Point(-1, 0), Point(-1, 1)}
              [] dir = "SOUTH" -> {Point(1, -1), Point(1, 0), Point(1, 1)}
              [] dir = "WEST" -> {Point(1, -1), Point(0, -1), Point(-1, -1)}
              [] dir = "EAST" -> {Point(1, 1), Point(0, 1), Point(-1, 1)}
    IN {Point(base_point.x + rel_point.x, base_point.y + rel_point.y) :
            rel_point \in rel_points}

\* lines 73-81
GetAdjPoints(base_point) ==
    UNION {GetAdjPointsDir(base_point, dir) : dir \in Range(Directions)}

\* lines 83-94
GetNewLoc(base_point, dir) ==
    CASE dir = "NORTH" -> Point(base_point.x - 1, base_point.y)
      [] dir = "SOUTH" -> Point(base_point.x + 1, base_point.y)
      [] dir = "EAST" -> Point(base_point.x, base_point.y + 1)
      [] dir = "WEST" -> Point(base_point.x, base_point.y - 1)

\* lines 112-128: new_loc of the elf at curr_loc
ProposedLoc(curr_loc, locations, start) ==
    LET all_dirs == GetAllDirections(start)
        free == {k \in 1..Len(all_dirs) :
                    GetAdjPointsDir(curr_loc, all_dirs[k]) \cap locations = {}}
    IN IF GetAdjPoints(curr_loc) \cap locations # {} /\ free # {}
       THEN GetNewLoc(curr_loc, all_dirs[MinOfSet(free)])
       ELSE curr_loc

\* lines 109-134: new_loc for every elf
ProposedLocs(locations, start) ==
    [curr_loc \in locations |-> ProposedLoc(curr_loc, locations, start)]

\* line 134: proposed_new_locs[new_loc], given new_loc for every elf
ProposedBy(new_loc, new_locs) ==
    {curr_loc \in DOMAIN new_locs : new_locs[curr_loc] = new_loc}

\* lines 96-145
SimulateSingleStep_contestedTaken(locations, start) ==
    {ProposedLoc(curr_loc, locations, start) : curr_loc \in locations}

SimulateSingleStep(locations, start) ==
    LET new_locs == ProposedLocs(locations, start)
    IN UNION {IF Cardinality(ProposedBy(new_loc, new_locs)) = 1
              THEN {new_loc}
              ELSE ProposedBy(new_loc, new_locs) :
                  new_loc \in {new_locs[curr_loc] : curr_loc \in locations}}

\* lines 177-183
EmptyGroundTiles(locations) ==
    LET min_x == MinOfSet({point.x : point \in locations})
        max_x == MaxOfSet({point.x : point \in locations})
        min_y == MinOfSet({point.y : point \in locations})
        max_y == MaxOfSet({point.y : point \in locations})
    IN (max_x - min_x + 1) * (max_y - min_y + 1) - Cardinality(locations)

\* lines 169-170
Init23 ==
    /\ elf_file \in ElfLayouts
    /\ elf_locations = elf_file
    /\ start_dir = "NORTH"
    /\ steps_done = 0
    /\ round_count = 0
    /\ printed = <<>>
    /\ pc = "d23_part1"
    /\ OnlyDay23

\* lines 172-174: one step of part 1
ElvesPart1Step ==
    /\ pc = "d23_part1"
    /\ steps_done < Part1Steps
    /\ elf_locations' = SimulateSingleStep(elf_locations, start_dir)
    /\ start_dir' = GetNextDirection(start_dir)
    /\ steps_done' = steps_done + 1
    /\ UNCHANGED <<elf_file, round_count, printed, pc>>
    /\ UNCHANGED NotDay23

\* lines 177-188; min() of line 177 raises ValueError without elves
ElvesPart1Print ==
    /\ pc = "d23_part1"
    /\ steps_done >= Part1Steps
    /\ IF elf_locations = {}
       THEN /\ pc' = "ValueError"
            /\ UNCHANGED <<elf_locations, start_dir, round_count, printed>>
       ELSE /\ printed' = Append(printed, EmptyGroundTiles(elf_locations))
            /\ elf_locations' = elf_file
            /\ start_dir' = "NORTH"
            /\ round_count' = 1
            /\ pc' = "d23_part2"
    /\ UNCHANGED <<elf_file, steps_done>>
    /\ UNCHANGED NotDay23

\* lines 190-198: one iteration of the loop of part 2, with lines 194 and
\* 200 when no elf moved
ElvesPart2Step ==
    /\ pc = "d23_part2"
    /\ LET new_elf_locations == SimulateSingleStep(elf_locations, start_dir)
       IN IF new_elf_locations = elf_locations
          THEN /\ printed' = Append(printed, round_count)
               /\ pc' = "d23_done"
               /\ UNCHANGED <<elf_locations, start_dir, round_count>>
          ELSE /\ start_dir' = GetNextDirection(start_dir)
               /\ elf_locations' = new_elf_locations
               /\ round_count' = round_count + 1
               /\ UNCHANGED <<printed, pc>>
    /\ UNCHANGED <<elf_file, steps_done>>
    /\ UNCHANGED NotDay23

Next23 ==
    \/ ElvesPart1Step
    \/ ElvesPart1Print
    \/ ElvesPart2Step

Spec23 == Init23 /\ [][Next23]_vars

\* lines 138-143: the location on which every elf ends
EndsOn(locations, start) ==
    LET new_locs == ProposedLocs(locations, start)
    IN [curr_loc \in locations |->
           IF ProposedBy(new_locs[curr_loc], new_locs) = {curr_loc}
           THEN new_locs[curr_loc]
           ELSE curr_loc]

\* C30: _simulate_single_step returns as many locations as it is given, for
\* the elf layout of every state and every starting direction: the result
\* is the set of the locations the elves end on, no two elves end on the
\* same location, and no elf moves onto a location on which another elf
\* stays; the script keeps the number of elves of the data file.
C30_ElvesKeepTheirNumber ==
    /\ Cardinality(elf_locations) = Cardinality(elf_file)
    /\ \A start \in Range(Directions) :
           LET new_elf_locations == SimulateSingleStep(elf_locations, start)
               ends_on == EndsOn(elf_locations, start)
           IN /\ Cardinality(new_elf_locations) = Cardinality(elf_locations)
              /\ new_elf_locations = {ends_on[elf] : elf \in elf_locations}
              /\ \A elf1, elf2 \in elf_locations :
                     elf1 # elf2 => ends_on[elf1] # ends_on[elf2]
              /\ \A elf1, elf2 \in elf_locations :
                     (ends_on[elf1] # elf1 /\ ends_on[elf2] = elf2) =>
                         ends_on[elf1] # elf2

\* a step of part 2 in which two elves proposed the same location and
\* stayed while another elf moved
C30_Witness ==
    /\ pc = "d23_part2"
    /\ \E elf1, elf2, elf3 \in elf_locations :
           /\ elf1 # elf2
           /\ ProposedLoc(elf1, elf_locations, start_dir)
                  = ProposedLoc(elf2, elf_locations, start_dir)
           /\ EndsOn(elf_locations, start_dir)[elf1] = elf1
           /\ EndsOn(elf_locations, start_dir)[elf3] # elf3

====
